---- MODULE Spec2Model ----
(***************************************************************************)
(* A model of the HTTP/1.1 request decoder of httpfromtcp                  *)
(* (internal/request, internal/headers).  A byte is a one-character        *)
(* string, a byte slice or Go string is a sequence of bytes.               *)
(***************************************************************************)
EXTENDS Integers, Sequences, FiniteSets, TLC

VARIABLES msg, stream, buf, req, pc, ret, last,
          htab, hop, routes, chain, out, calls, closed

vars == <<msg, stream, buf, req, pc, ret, last,
          htab, hop, routes, chain, out, calls, closed>>

\* the variables of one RequestFromReader call
decoderVars == <<msg, stream, buf, req, pc, ret, last>>

\* a header table of its own and the last operation made on it
headerVars == <<htab, hop>>

\* the routes of a Mux and a handler built by Chain
muxVars == <<routes, chain>>

\* the connection: what was written to it, the handler and middleware
\* code that ran, and whether it is closed
connVars == <<out, calls, closed>>

(***************************************************************************)
(* Bounds of the model.                                                    *)
(***************************************************************************)
\* the largest number of header lines of a generated message
MaxHeaders == 2
\* the reader delivers 1..MaxChunk bytes per read, or all that is left
MaxChunk == 2

(***************************************************************************)
(* Byte-slice helpers (Go's bytes and strings packages).                   *)
(***************************************************************************)
CR == "\r"
LF == "\n"
SEPARATOR == <<CR, LF>>

Min(a, b) == IF a < b THEN a ELSE b

\* s[from:] with Go's 0-based offset
Drop(s, from) == SubSeq(s, from + 1, Len(s))

\* s[:to]
Take(s, to) == SubSeq(s, 1, to)

\* bytes.Index: the 0-based offset of the first occurrence of sep in s, or -1
Index(s, sep) ==
    LET hits == {i \in 0..(Len(s) - Len(sep)) : SubSeq(s, i + 1, i + Len(sep)) = sep}
    IN  IF hits = {} THEN -1 ELSE CHOOSE i \in hits : \A j \in hits : i <= j

\* bytes.Split with a one-byte separator: every occurrence splits
RECURSIVE Split(_, _)
Split(s, c) ==
    LET i == Index(s, <<c>>)
    IN  IF i = -1 THEN <<s>>
        ELSE <<Take(s, i)>> \o Split(Drop(s, i + 1), c)

\* bytes.SplitN(s, sep, 2): split at the first occurrence only
SplitN2(s, c) ==
    LET i == Index(s, <<c>>)
    IN  IF i = -1 THEN <<s>> ELSE <<Take(s, i), Drop(s, i + 1)>>

WhiteSpace == {" ", "\t", CR, LF}

\* bytes.TrimSpace
RECURSIVE TrimLeft(_)
TrimLeft(s) ==
    IF s # <<>> /\ s[1] \in WhiteSpace THEN TrimLeft(Tail(s)) ELSE s

RECURSIVE TrimRight(_)
TrimRight(s) ==
    IF s # <<>> /\ s[Len(s)] \in WhiteSpace THEN TrimRight(Take(s, Len(s) - 1)) ELSE s

TrimSpace(s) == TrimRight(TrimLeft(s))

UpperLetters == <<"A","B","C","D","E","F","G","H","I","J","K","L","M",
                  "N","O","P","Q","R","S","T","U","V","W","X","Y","Z">>
LowerLetters == <<"a","b","c","d","e","f","g","h","i","j","k","l","m",
                  "n","o","p","q","r","s","t","u","v","w","x","y","z">>
Digits == <<"0","1","2","3","4","5","6","7","8","9">>

Range(s) == {s[i] : i \in DOMAIN s}

LowerByte(c) ==
    IF c \in Range(UpperLetters)
    THEN LowerLetters[CHOOSE i \in DOMAIN UpperLetters : UpperLetters[i] = c]
    ELSE c

\* strings.ToLower
ToLower(s) == [i \in DOMAIN s |-> LowerByte(s[i])]

DigitValue(c) == (CHOOSE i \in DOMAIN Digits : Digits[i] = c) - 1

RECURSIVE DecimalValue(_)
DecimalValue(s) ==
    IF s = <<>> THEN 0
    ELSE 10 * DecimalValue(Take(s, Len(s) - 1)) + DigitValue(s[Len(s)])

\* strconv.Atoi: an optional sign and at least one decimal digit
Atoi(s) ==
    LET signed == s # <<>> /\ s[1] \in {"+", "-"}
        digits == IF signed THEN Tail(s) ELSE s
    IN  IF digits = <<>> \/ \E i \in DOMAIN digits : digits[i] \notin Range(Digits)
        THEN [ok |-> FALSE, value |-> 0]
        ELSE [ok |-> TRUE,
              value |-> IF signed /\ s[1] = "-" THEN 0 - DecimalValue(digits)
                        ELSE DecimalValue(digits)]

(***************************************************************************)
(* internal/headers: the header table and its line parser.                 *)
(***************************************************************************)
NoErr == "nil"
ErrorMalformedFieldLine == "malformed field line"
ErrorMalformedHeaderName == "malformed header name"

\* the grave accent byte (0x60), which a TLA+ string cannot hold literally
GraveAccent == "grave"

TokenSpecials ==
    {"!", "#", "$", "%", "&", "'", "*", "+", "-", ".", "^", "_", GraveAccent, "|", "~"}

\* isToken with found set once for the whole name instead of once per byte:
\* after a first good byte every byte passes
isTokenSticky(str) ==
    str = <<>>
    \/ str[1] \in Range(UpperLetters) \cup Range(LowerLetters) \cup Range(Digits) \cup TokenSpecials

\* isToken: every byte is a letter, a digit or one of the token specials
isToken(str) ==
    \A i \in DOMAIN str :
        \/ str[i] \in Range(UpperLetters)
        \/ str[i] \in Range(LowerLetters)
        \/ str[i] \in Range(Digits)
        \/ str[i] \in TokenSpecials

\* parseHeader: the name before the first ':' and the trimmed value after it
parseHeader(fieldLine) ==
    LET parts == SplitN2(fieldLine, ":")
    IN  IF Len(parts) # 2
        THEN [name |-> <<>>, value |-> <<>>, err |-> ErrorMalformedFieldLine]
        ELSE [name |-> parts[1], value |-> TrimSpace(parts[2]), err |-> NoErr]

\* NewHeaders: the empty map
NewHeaders == <<>>

\* a lookup by the name as given
HeadersGetExact(h, name) ==
    IF name \in DOMAIN h THEN [value |-> h[name], exists |-> TRUE]
    ELSE [value |-> <<>>, exists |-> FALSE]

\* Headers.Get: a case-insensitive lookup
HeadersGet(h, name) ==
    LET key == ToLower(name)
    IN  IF key \in DOMAIN h THEN [value |-> h[key], exists |-> TRUE]
        ELSE [value |-> <<>>, exists |-> FALSE]

\* a Set that overwrites the value the name has
HeadersSetOverwrite(h, name, value) ==
    LET key == ToLower(name)
    IN  IF key \in DOMAIN h THEN [h EXCEPT ![key] = value]
        ELSE h @@ (key :> value)

\* Headers.Set: a repeated name appends its value after a comma
HeadersSet(h, name, value) ==
    LET key == ToLower(name)
    IN  IF key \in DOMAIN h THEN [h EXCEPT ![key] = @ \o <<",">> \o value]
        ELSE h @@ (key :> value)

\* Headers.Replace: an unconditional overwrite
HeadersReplace(h, name, value) ==
    LET key == ToLower(name)
    IN  IF key \in DOMAIN h THEN [h EXCEPT ![key] = value]
        ELSE h @@ (key :> value)

\* a Delete of the key as given
HeadersDeleteExact(h, name) == [k \in DOMAIN h \ {name} |-> h[k]]

\* Headers.Delete: delete() of the lower-cased key
HeadersDelete(h, name) == [k \in DOMAIN h \ {ToLower(name)} |-> h[k]]

\* Parse going on past the empty line, over whatever follows it
RECURSIVE HeadersParseLoopPast(_, _, _)
HeadersParseLoopPast(h, data, read) ==
    LET idx == Index(Drop(data, read), SEPARATOR)
    IN  IF idx = -1 THEN [h |-> h, n |-> read, done |-> read > 0, err |-> NoErr]
        ELSE IF idx = 0
        THEN HeadersParseLoopPast(h, data, read + Len(SEPARATOR))
        ELSE LET hdr == parseHeader(SubSeq(data, read + 1, read + idx))
             IN  IF hdr.err # NoErr
                 THEN [h |-> h, n |-> 0, done |-> FALSE, err |-> hdr.err]
                 ELSE IF ~isToken(hdr.name)
                 THEN [h |-> h, n |-> 0, done |-> FALSE, err |-> ErrorMalformedHeaderName]
                 ELSE HeadersParseLoopPast(HeadersSet(h, hdr.name, hdr.value), data,
                                           read + idx + Len(SEPARATOR))

\* Parse counting the bytes of an unfinished line as read
RECURSIVE HeadersParseLoopPartial(_, _, _)
HeadersParseLoopPartial(h, data, read) ==
    LET idx == Index(Drop(data, read), SEPARATOR)
    IN  IF idx = -1 THEN [h |-> h, n |-> Len(data), done |-> FALSE, err |-> NoErr]
        ELSE IF idx = 0
        THEN [h |-> h, n |-> read + Len(SEPARATOR), done |-> TRUE, err |-> NoErr]
        ELSE LET hdr == parseHeader(SubSeq(data, read + 1, read + idx))
             IN  IF hdr.err # NoErr
                 THEN [h |-> h, n |-> 0, done |-> FALSE, err |-> hdr.err]
                 ELSE IF ~isToken(hdr.name)
                 THEN [h |-> h, n |-> 0, done |-> FALSE, err |-> ErrorMalformedHeaderName]
                 ELSE HeadersParseLoopPartial(HeadersSet(h, hdr.name, hdr.value), data,
                                              read + idx + Len(SEPARATOR))

\* Headers.Parse: consume the complete header lines of data
RECURSIVE HeadersParseLoop(_, _, _)
HeadersParseLoop(h, data, read) ==
    LET idx == Index(Drop(data, read), SEPARATOR)
    IN  IF idx = -1 THEN [h |-> h, n |-> read, done |-> FALSE, err |-> NoErr]
        ELSE IF idx = 0
        THEN [h |-> h, n |-> read + Len(SEPARATOR), done |-> TRUE, err |-> NoErr]
        ELSE LET hdr == parseHeader(SubSeq(data, read + 1, read + idx))
             IN  IF hdr.err # NoErr
                 THEN [h |-> h, n |-> 0, done |-> FALSE, err |-> hdr.err]
                 ELSE IF ~isToken(hdr.name)
                 THEN [h |-> h, n |-> 0, done |-> FALSE, err |-> ErrorMalformedHeaderName]
                 ELSE HeadersParseLoop(HeadersSet(h, hdr.name, hdr.value), data,
                                       read + idx + Len(SEPARATOR))

HeadersParse(h, data) == HeadersParseLoop(h, data, 0)

(***************************************************************************)
(* internal/request: the decoder state machine.                            *)
(***************************************************************************)
StateInit == "init"
StateHeaders == "headers"
StateBody == "body"
StateDone == "done"
StateError == "error"

ErrorMalformedRequestLine == "malformed request line"
ErrorRequestInErrorState == "request in error state"
ErrorConnectionClosed == "connection closed unexpectedly"
PanicChunked == "panic: chunked not implemented"
PanicSliceBounds == "panic: slice bounds out of range"

ZeroRequestLine == [HttpVersion |-> <<>>, RequestTarget |-> <<>>, Method |-> <<>>]

\* newRequest; hist is the history of the values assigned to state
newRequest ==
    [RequestLine |-> ZeroRequestLine,
     Headers |-> NewHeaders,
     Body |-> <<>>,
     PathParams |-> <<>>,
     state |-> StateInit,
     hist |-> <<StateInit>>]

\* an assignment r.state = s
SetState(r, s) == [r EXCEPT !.state = s, !.hist = Append(@, s)]

\* getInt: the header as an integer, or the default
getInt(headers, name, defaultValue) ==
    LET got == HeadersGet(headers, name)
        conv == Atoi(got.value)
    IN  IF ~got.exists THEN defaultValue
        ELSE IF ~conv.ok THEN defaultValue
        ELSE conv.value

ContentLengthName == <<"c","o","n","t","e","n","t","-","l","e","n","g","t","h">>

\* parseRequestLine without the check of the version token
parseRequestLineAnyVersion(b) ==
    LET idx == Index(b, SEPARATOR)
        parts == Split(Take(b, idx), " ")
        httpParts == Split(parts[3], "/")
    IN  IF idx = -1 THEN [rl |-> ZeroRequestLine, n |-> 0, err |-> NoErr]
        ELSE IF Len(parts) # 3
        THEN [rl |-> ZeroRequestLine, n |-> 0, err |-> ErrorMalformedRequestLine]
        ELSE [rl |-> [Method |-> parts[1],
                      RequestTarget |-> parts[2],
                      HttpVersion |-> httpParts[Len(httpParts)]],
              n |-> idx + Len(SEPARATOR), err |-> NoErr]

\* parseRequestLine
parseRequestLine(b) ==
    LET idx == Index(b, SEPARATOR)
        startLine == Take(b, idx)
        read == idx + Len(SEPARATOR)
        parts == Split(startLine, " ")
        httpParts == Split(parts[3], "/")
    IN  IF idx = -1 THEN [rl |-> ZeroRequestLine, n |-> 0, err |-> NoErr]
        ELSE IF Len(parts) # 3
        THEN [rl |-> ZeroRequestLine, n |-> 0, err |-> ErrorMalformedRequestLine]
        ELSE IF Len(httpParts) # 2
                \/ httpParts[1] # <<"H","T","T","P">>
                \/ httpParts[2] # <<"1",".","1">>
        THEN [rl |-> ZeroRequestLine, n |-> 0, err |-> ErrorMalformedRequestLine]
        ELSE [rl |-> [Method |-> parts[1],
                      RequestTarget |-> parts[2],
                      HttpVersion |-> httpParts[2]],
              n |-> read, err |-> NoErr]

\* hasBody taking every request with a Content-Length header for one with
\* a body
hasBodyPresent(r) == ToLower(ContentLengthName) \in DOMAIN r.Headers

\* hasBody taking every non-zero Content-Length for a body
hasBodyNonZero(r) == getInt(r.Headers, ContentLengthName, 0) # 0

\* Request.hasBody
hasBody(r) == getInt(r.Headers, ContentLengthName, 0) > 0

\* One pass of the switch in Request.parse.  ctl says how the pass leaves the
\* loop: "loop" goes round again, "break" is break outer, "return" returns.
\* the error pass starting the request over instead of staying in error
parseStateErrorReset(r, currentData, read) ==
    [r |-> SetState(r, StateInit), read |-> 0, ctl |-> "return", err |-> ErrorRequestInErrorState]

parseStateError(r, currentData, read) ==
    [r |-> r, read |-> 0, ctl |-> "return", err |-> ErrorRequestInErrorState]

\* the StateInit pass dropping what it was given when no line is complete
parseStateInitDiscard(r, currentData, read) ==
    LET res == parseRequestLine(currentData)
    IN  IF res.err # NoErr
        THEN [r |-> SetState(r, StateError), read |-> 0, ctl |-> "return", err |-> res.err]
        ELSE IF res.n = 0
        THEN [r |-> r, read |-> read + Len(currentData), ctl |-> "break", err |-> NoErr]
        ELSE [r |-> SetState([r EXCEPT !.RequestLine = res.rl], StateHeaders),
              read |-> read + res.n, ctl |-> "loop", err |-> NoErr]

parseStateInit(r, currentData, read) ==
    LET res == parseRequestLine(currentData)
    IN  IF res.err # NoErr
        THEN [r |-> SetState(r, StateError), read |-> 0, ctl |-> "return", err |-> res.err]
        ELSE IF res.n = 0
        THEN [r |-> r, read |-> read, ctl |-> "break", err |-> NoErr]
        ELSE [r |-> SetState([r EXCEPT !.RequestLine = res.rl], StateHeaders),
              read |-> read + res.n, ctl |-> "loop", err |-> NoErr]

\* the headers pass reporting the lines it has stored as consumed only once
\* the blank line has arrived
parseStateHeadersReparse(r, currentData, read) ==
    LET res == HeadersParse(r.Headers, currentData)
        r1 == [r EXCEPT !.Headers = res.h]
    IN  IF res.err # NoErr
        THEN [r |-> SetState(r1, StateError), read |-> 0, ctl |-> "return", err |-> res.err]
        ELSE IF res.n = 0 \/ ~res.done
        THEN [r |-> r1, read |-> read, ctl |-> "break", err |-> NoErr]
        ELSE [r |-> IF hasBody(r1) THEN SetState(r1, StateBody) ELSE SetState(r1, StateDone),
              read |-> read + res.n, ctl |-> "loop", err |-> NoErr]

parseStateHeaders(r, currentData, read) ==
    LET res == HeadersParse(r.Headers, currentData)
        r1 == [r EXCEPT !.Headers = res.h]
    IN  IF res.err # NoErr
        THEN [r |-> SetState(r1, StateError), read |-> 0, ctl |-> "return", err |-> res.err]
        ELSE IF res.n = 0
        THEN [r |-> r1, read |-> read, ctl |-> "break", err |-> NoErr]
        ELSE [r |-> IF res.done
                    THEN IF hasBody(r1) THEN SetState(r1, StateBody)
                         ELSE SetState(r1, StateDone)
                    ELSE r1,
              read |-> read + res.n, ctl |-> "loop", err |-> NoErr]

\* the body pass taking the body for complete as soon as some of it arrived
parseStateBodyEager(r, currentData, read) ==
    LET length == getInt(r.Headers, ContentLengthName, 0)
        remaining == Min(length - Len(r.Body), Len(currentData))
        r1 == [r EXCEPT !.Body = @ \o Take(currentData, remaining)]
    IN  [r |-> IF Len(r1.Body) > 0 THEN SetState(r1, StateDone) ELSE r1,
         read |-> read + remaining, ctl |-> "loop", err |-> NoErr]

\* the body pass without the min: it takes every byte at hand
parseStateBodyGreedy(r, currentData, read) ==
    LET length == getInt(r.Headers, ContentLengthName, 0)
        remaining == Len(currentData)
        r1 == [r EXCEPT !.Body = @ \o Take(currentData, remaining)]
    IN  [r |-> IF Len(r1.Body) = length THEN SetState(r1, StateDone) ELSE r1,
         read |-> read + remaining, ctl |-> "loop", err |-> NoErr]

parseStateBody(r, currentData, read) ==
    LET length == getInt(r.Headers, ContentLengthName, 0)
        remaining == Min(length - Len(r.Body), Len(currentData))
        r1 == [r EXCEPT !.Body = @ \o Take(currentData, remaining)]
    IN  IF length = 0
        THEN [r |-> r, read |-> read, ctl |-> "return", err |-> PanicChunked]
        ELSE IF remaining < 0
        THEN [r |-> r, read |-> read, ctl |-> "return", err |-> PanicSliceBounds]
        ELSE [r |-> IF Len(r1.Body) = length THEN SetState(r1, StateDone) ELSE r1,
              read |-> read + remaining, ctl |-> "loop", err |-> NoErr]

\* the done pass swallowing whatever follows the request
parseStateDoneDrain(r, currentData, read) ==
    [r |-> r, read |-> read + Len(currentData), ctl |-> "break", err |-> NoErr]

parseStateDone(r, currentData, read) ==
    [r |-> r, read |-> read, ctl |-> "break", err |-> NoErr]

parseSwitch(r, currentData, read) ==
    CASE r.state = StateError -> parseStateError(r, currentData, read)
      [] r.state = StateInit -> parseStateInit(r, currentData, read)
      [] r.state = StateHeaders -> parseStateHeaders(r, currentData, read)
      [] r.state = StateBody -> parseStateBody(r, currentData, read)
      [] r.state = StateDone -> parseStateDone(r, currentData, read)

\* Request.parse: the loop over the switch; n is the number of bytes consumed
RECURSIVE parseLoop(_, _, _)
parseLoop(r, data, read) ==
    LET currentData == Drop(data, read)
    IN  IF Len(currentData) = 0 THEN [r |-> r, n |-> read, err |-> NoErr]
        ELSE LET pass == parseSwitch(r, currentData, read)
             IN  IF pass.ctl = "loop" THEN parseLoop(pass.r, data, pass.read)
                 ELSE [r |-> pass.r, n |-> pass.read, err |-> pass.err]

parse(r, data) == parseLoop(r, data, 0)

\* Request.done
done(r) == r.state = StateDone \/ r.state = StateError

(***************************************************************************)
(* The byte streams a connection delivers.  A message is written down by   *)
(* its parts (the tokens of the request line, the header lines, the bytes  *)
(* after the blank line); Encode gives its bytes.  The parts are what the  *)
(* properties below compare the decoder's result with.                     *)
(***************************************************************************)
GET == <<"G","E","T">>
TargetQ == <<"/","x","?","q","=","1">>
TargetX == <<"/","x">>
VersionOK == <<"H","T","T","P","/","1",".","1">>
VersionFOO == <<"F","O","O","/","1",".","1">>
Version10 == <<"H","T","T","P","/","1",".","0">>
NameCL == <<"C","o","n","t","e","n","t","-","L","e","n","g","t","h">>
NameCLUpper == <<"C","O","N","T","E","N","T","-","L","E","N","G","T","H">>
NameHost == <<"H","o","s","t">>
KeyHost == <<"h","o","s","t">>
NameBad == <<"H","@","s","t">>
KeyBad == <<"h","@","s","t">>

\* request lines, by their space-separated tokens
RequestLines ==
    { <<GET, TargetQ, VersionOK>>,
      <<GET, TargetX, VersionFOO>>,
      <<GET, TargetX, Version10>>,
      <<GET, TargetX>>,
      <<GET, <<>>, TargetX, VersionOK>> }

\* header lines: name ":" pre value post; key is the name in lower case and
\* int the value read as a decimal integer (isInt FALSE when it is none)
HeaderLines ==
    { [name |-> NameCL, key |-> ContentLengthName, pre |-> <<" ">>, value |-> <<"3">>,
       post |-> <<>>, isInt |-> TRUE, int |-> 3],
      [name |-> NameCLUpper, key |-> ContentLengthName, pre |-> <<>>, value |-> <<"0">>,
       post |-> <<" ">>, isInt |-> TRUE, int |-> 0],
      [name |-> NameCL, key |-> ContentLengthName, pre |-> <<" ">>, value |-> <<"-","2">>,
       post |-> <<>>, isInt |-> TRUE, int |-> 0 - 2],
      [name |-> NameCL, key |-> ContentLengthName, pre |-> <<" ">>, value |-> <<"3","x">>,
       post |-> <<>>, isInt |-> FALSE, int |-> 0],
      [name |-> NameHost, key |-> KeyHost, pre |-> <<" ">>, value |-> <<"a",":","b">>,
       post |-> <<>>, isInt |-> FALSE, int |-> 0],
      [name |-> NameBad, key |-> KeyBad, pre |-> <<" ">>, value |-> <<"a">>,
       post |-> <<>>, isInt |-> FALSE, int |-> 0] }

\* the bytes after the blank line
Tails == { <<>>, <<"a","b","c">>, <<"a","b","c","d","e">> }

HeaderSeqs == UNION { [1..n -> HeaderLines] : n \in 0..MaxHeaders }

Messages == [rl : RequestLines, hdrs : HeaderSeqs, tail : Tails]

RECURSIVE JoinTokens(_)
JoinTokens(tokens) ==
    IF Len(tokens) = 1 THEN tokens[1]
    ELSE tokens[1] \o <<" ">> \o JoinTokens(Tail(tokens))

EncodeHeader(h) == h.name \o <<":">> \o h.pre \o h.value \o h.post \o SEPARATOR

RECURSIVE EncodeHeaders(_)
EncodeHeaders(hs) ==
    IF hs = <<>> THEN <<>> ELSE EncodeHeader(hs[1]) \o EncodeHeaders(Tail(hs))

\* the request line, the header block and the blank line
EncodeHead(m) == JoinTokens(m.rl) \o SEPARATOR \o EncodeHeaders(m.hdrs) \o SEPARATOR

Encode(m) == EncodeHead(m) \o m.tail

(***************************************************************************)
(* RequestFromReader: the loop that reads the connection and drives parse. *)
(* stream is what the reader has not delivered yet, buf is buf[:bufLen].   *)
(***************************************************************************)
BufSize == 1024

NoResult == [isNil |-> TRUE, req |-> newRequest, err |-> NoErr]

\* last: the state parse was entered in, what it returned, and the bytes
\* consumed by all the calls so far
NoCall == [entry |-> "none", n |-> 0, err |-> NoErr, total |-> 0]

\* no header table operation made yet
NoOp == [op |-> "none", name |-> <<>>, value |-> <<>>, before |-> <<>>, err |-> NoErr]

HeadersIdle == htab = NewHeaders /\ hop = NoOp

\* no route registered, no handler chained
NoChain == [h |-> 0, mws |-> <<>>, handler |-> [base |-> 0, wraps |-> <<>>], built |-> FALSE]

MuxIdle == routes = <<>> /\ chain = NoChain

\* nothing written, nothing called, the connection open
ConnIdle == out = <<>> /\ calls = <<>> /\ closed = FALSE

Init ==
    /\ msg \in Messages
    /\ stream = Encode(msg)
    /\ buf = <<>>
    /\ req = newRequest
    /\ pc = "reading"
    /\ ret = NoResult
    /\ last = NoCall
    /\ HeadersIdle /\ MuxIdle /\ ConnIdle

\* the sizes a read of the connection may deliver: Read(buf[bufLen:]) gives
\* at least one byte and at most what is left of the stream and of the buffer
ChunkSizes(s, b) ==
    LET most == Min(Len(s), BufSize - Len(b))
    IN  {k \in (1..MaxChunk) \cup {most} : k >= 1 /\ k <= most}

\* the loop without the shift: the consumed bytes stay in the buffer
ShiftBufferKeep(b, readN) == b

\* copy(buf, buf[readN:bufLen]); bufLen -= readN
ShiftBuffer(b, readN) == Drop(b, readN)

\* the turn of a loop that tests done() only after its next read: a
\* request that has reached Done is returned one read later
ReadChunkLate(k) ==
    /\ pc = "reading"
    /\ k \in ChunkSizes(stream, buf)
    /\ \E data \in {buf \o Take(stream, k)} :
       \E res \in {IF done(req) THEN [r |-> req, n |-> 0, err |-> NoErr] ELSE parse(req, data)} :
           /\ stream' = Drop(stream, k)
           /\ req' = res.r
           /\ last' = [entry |-> req.state, n |-> res.n, err |-> res.err,
                       total |-> last.total + res.n]
           /\ IF res.err # NoErr
              THEN /\ pc' = "returned"
                   /\ buf' = <<>>
                   /\ ret' = [isNil |-> TRUE, req |-> newRequest, err |-> res.err]
              ELSE IF done(req)
              THEN /\ pc' = "returned"
                   /\ buf' = <<>>
                   /\ ret' = [isNil |-> FALSE, req |-> res.r, err |-> NoErr]
              ELSE /\ pc' = "reading"
                   /\ buf' = ShiftBuffer(data, res.n)
                   /\ ret' = ret
    /\ UNCHANGED <<msg, headerVars, muxVars, connVars>>

\* One turn of the loop: a read that delivers k bytes, the parse of the
\* buffer, the shift, and the return when parse failed or the loop ends.
\* buf is a local of RequestFromReader: a return drops what it holds.
ReadChunk(k) ==
    /\ pc = "reading"
    /\ ~done(req)
    /\ k \in ChunkSizes(stream, buf)
    /\ \E data \in {buf \o Take(stream, k)} :
       \E res \in {parse(req, data)} :
           /\ stream' = Drop(stream, k)
           /\ req' = res.r
           /\ last' = [entry |-> req.state, n |-> res.n, err |-> res.err,
                       total |-> last.total + res.n]
           /\ IF res.err \in {PanicChunked, PanicSliceBounds}
              THEN /\ pc' = "panicked"
                   /\ buf' = <<>>
                   /\ ret' = ret
              ELSE IF res.err # NoErr
              THEN /\ pc' = "returned"
                   /\ buf' = <<>>
                   /\ ret' = [isNil |-> TRUE, req |-> newRequest, err |-> res.err]
              ELSE IF done(res.r)
              THEN /\ pc' = "returned"
                   /\ buf' = <<>>
                   /\ ret' = [isNil |-> FALSE, req |-> res.r, err |-> NoErr]
              ELSE /\ pc' = "reading"
                   /\ buf' = ShiftBuffer(data, res.n)
                   /\ ret' = ret
    /\ UNCHANGED <<msg, headerVars, muxVars, connVars>>

\* the read at the end of the stream taken for the end of the request: the
\* request is returned as far as it was decoded
ReadEOFPartial ==
    /\ pc = "reading"
    /\ ~done(req)
    /\ stream = <<>>
    /\ pc' = "returned"
    /\ buf' = <<>>
    /\ ret' = [isNil |-> FALSE, req |-> req, err |-> NoErr]
    /\ UNCHANGED <<msg, stream, req, last, headerVars, muxVars, connVars>>

\* The read that finds the connection closed before the request is done.
ReadEOF ==
    /\ pc = "reading"
    /\ ~done(req)
    /\ stream = <<>>
    /\ pc' = "returned"
    /\ buf' = <<>>
    /\ ret' = [isNil |-> TRUE, req |-> newRequest, err |-> ErrorConnectionClosed]
    /\ UNCHANGED <<msg, stream, req, last, headerVars, muxVars, connVars>>

Next ==
    \/ \E k \in ChunkSizes(stream, buf) : ReadChunk(k)
    \/ ReadEOF

Spec == Init /\ [][Next]_vars

(***************************************************************************)
(* RequestFromReader on a request whose first line is longer than the      *)
(* buffer.  Once the buffer is full, buf[bufLen:] is empty and a read of   *)
(* the connection returns 0 bytes and no error: the loop turns without     *)
(* reading or consuming anything.  No message of Messages fills the        *)
(* buffer, so the turn is an action of this specification only.            *)
(***************************************************************************)
LongTarget == <<"/">> \o [i \in 1..BufSize |-> "a"]

LongLineMessages ==
    { [rl |-> <<GET, LongTarget, VersionOK>>, hdrs |-> <<>>, tail |-> <<>>],
      [rl |-> <<GET, TargetX, VersionOK>>,
       hdrs |-> <<[name |-> NameCL, key |-> ContentLengthName, pre |-> <<" ">>,
                   value |-> <<"3">>, post |-> <<>>, isInt |-> TRUE, int |-> 3]>>,
       tail |-> <<"a">>] }

InitLongLine ==
    /\ msg \in LongLineMessages
    /\ stream = Encode(msg)
    /\ buf = <<>>
    /\ req = newRequest
    /\ pc = "reading"
    /\ ret = NoResult
    /\ last = NoCall
    /\ HeadersIdle /\ MuxIdle /\ ConnIdle

\* One turn of the loop with a full buffer: the read delivers nothing and
\* parse is called on the same bytes again.
ReadNothing ==
    /\ pc = "reading"
    /\ ~done(req)
    /\ Len(buf) = BufSize
    /\ \E res \in {parse(req, buf)} :
           /\ res.err = NoErr
           /\ ~done(res.r)
           /\ req' = res.r
           /\ buf' = ShiftBuffer(buf, res.n)
           /\ last' = [entry |-> req.state, n |-> res.n, err |-> res.err,
                       total |-> last.total + res.n]
    /\ UNCHANGED <<msg, stream, pc, ret, headerVars, muxVars, connVars>>

NextLongLine ==
    \/ \E k \in ChunkSizes(stream, buf) : ReadChunk(k)
    \/ ReadEOF
    \/ ReadNothing

SpecLongLine == InitLongLine /\ [][NextLongLine]_vars

(***************************************************************************)
(* A caller that drives Request.parse itself, as RequestFromReader does,   *)
(* but keeps calling it whatever state the request is in.                  *)
(***************************************************************************)
ParseCall(k) ==
    /\ pc = "reading"
    /\ k \in ChunkSizes(stream, buf)
    /\ \E data \in {buf \o Take(stream, k)} :
       \E res \in {parse(req, data)} :
           /\ stream' = Drop(stream, k)
           /\ req' = res.r
           /\ last' = [entry |-> req.state, n |-> res.n, err |-> res.err,
                       total |-> last.total + res.n]
           /\ buf' = ShiftBuffer(data, res.n)
           /\ pc' = IF res.err \in {PanicChunked, PanicSliceBounds} THEN "panicked" ELSE pc
    /\ UNCHANGED <<msg, ret, headerVars, muxVars, connVars>>

NextParse == \E k \in ChunkSizes(stream, buf) : ParseCall(k)

SpecParse == Init /\ [][NextParse]_vars

(***************************************************************************)
(* What the parts of a message say the decoder must produce.               *)
(***************************************************************************)
\* the header lines of m that name Content-Length
ContentLengthLines(m) == {i \in DOMAIN m.hdrs : m.hdrs[i].key = ContentLengthName}

\* the declared body length: the value of the only Content-Length line when
\* it is a positive integer, and 0 when there is no usable one
DeclaredLength(m) ==
    LET cl == ContentLengthLines(m)
    IN  IF Cardinality(cl) # 1 THEN 0
        ELSE LET h == m.hdrs[CHOOSE i \in cl : TRUE]
             IN  IF h.isInt /\ h.int > 0 THEN h.int ELSE 0

\* the values of the lines of hs named key, in order, joined by commas
RECURSIVE JoinedValues(_, _)
JoinedValues(hs, key) ==
    IF hs = <<>> THEN <<>>
    ELSE LET rest == JoinedValues(Take(hs, Len(hs) - 1), key)
             h == hs[Len(hs)]
         IN  IF h.key # key THEN rest
             ELSE IF \E i \in 1..(Len(hs) - 1) : hs[i].key = key
             THEN rest \o <<",">> \o h.value
             ELSE h.value

\* the header table in which every line of hs is stored exactly once
ExpectedHeaders(hs) ==
    [key \in {hs[i].key : i \in DOMAIN hs} |-> JoinedValues(hs, key)]

\* the request line of m is malformed: not three tokens, or not HTTP/1.1
MalformedLine(m) == Len(m.rl) # 3 \/ m.rl[3] # VersionOK

\* what a request decodes to: its request line, headers and body
Decoded(r) == [RequestLine |-> r.RequestLine, Headers |-> r.Headers, Body |-> r.Body]

\* the bytes of the message the reader has delivered so far
Delivered == Len(Encode(msg)) - Len(stream)

(***************************************************************************)
(* The properties.                                                         *)
(***************************************************************************)
\* C1: chunk-boundary invariance.  For a message that one call of parse on
\* all its bytes decodes to Done, RequestFromReader fed the same bytes in
\* any chunks reaches Done with the same Request: while it is reading it
\* has room in its buffer for the bytes to come, it never fails, it has
\* returned once the bytes are delivered, and the Request it returns has the
\* same request line, headers and body.
C1_ChunkBoundaryInvariance ==
    LET whole == parse(newRequest, Encode(msg))
    IN  (whole.err = NoErr /\ whole.r.state = StateDone) =>
            /\ pc = "reading" => Len(buf) < BufSize /\ stream # <<>>
            /\ req.state # StateError
            /\ pc \in {"reading", "returned"}
            /\ pc = "returned" =>
                   /\ ~ret.isNil
                   /\ ret.err = NoErr
                   /\ ret.req.state = StateDone
                   /\ Decoded(ret.req) = Decoded(whole.r)

\* C1 witness: a request with two headers and a body returned after a call
\* of parse that started inside the body, so after several reads
C1_Witness ==
    /\ pc = "returned"
    /\ ~ret.isNil
    /\ last.entry = StateBody
    /\ Cardinality(DOMAIN ret.req.Headers) = 2
    /\ Len(ret.req.Body) = 3

AllowedTransitions ==
    { <<StateInit, StateHeaders>>, <<StateHeaders, StateBody>>,
      <<StateHeaders, StateDone>>, <<StateBody, StateDone>>,
      <<StateInit, StateError>>, <<StateHeaders, StateError>>,
      <<StateBody, StateError>> }

\* C2: over any sequence of parse calls the values assigned to the state
\* start at Init and follow only Init->Headers, Headers->Body,
\* Headers->Done, Body->Done or a move into Error; nothing leaves Done or
\* Error.
C2_StateTransitions ==
    /\ req.hist[1] = StateInit
    /\ req.state = req.hist[Len(req.hist)]
    /\ \A i \in 1..(Len(req.hist) - 1) :
           <<req.hist[i], req.hist[i + 1]>> \in AllowedTransitions

\* C2 witness: parse called again on a request that went through all four
\* states
C2_Witness ==
    /\ req.hist = <<StateInit, StateHeaders, StateBody, StateDone>>
    /\ last.entry = StateDone

\* C3: a parse call on a request in Done or Error consumes 0 bytes (the
\* caller's buffer keeps every byte) and leaves the request as it was.
C3_TerminalConsumesNothing ==
    [][ done(req) =>
            /\ req' = req
            /\ last'.n = 0
            /\ last'.total = last.total
            /\ buf' = buf \o Take(stream, Len(stream) - Len(stream')) ]_vars

\* C3 witness: parse was called with bytes on a request already in Done
C3_Witness ==
    /\ last.entry = StateDone
    /\ req.state = StateDone
    /\ buf # <<>>

\* C4: when decoding is Done the body is as long as the declared
\* Content-Length when there is a usable (positive integer) one, and empty
\* otherwise.
C4_BodyLengthAtDone ==
    req.state = StateDone => Len(req.Body) = DeclaredLength(msg)

\* C4 witness: a body of three bytes completed by a call that started in
\* the body
C4_Witness ==
    /\ req.state = StateDone
    /\ last.entry = StateBody
    /\ Len(req.Body) = 3

\* C5: when the header section completes the decoder moves to Body if the
\* message declares a positive integer Content-Length and to Done if the
\* header is absent, zero, negative, unparsable or repeated.
C5_BodyOrDoneAfterHeaders ==
    (Len(req.hist) >= 3 /\ req.hist[2] = StateHeaders /\ req.hist[3] # StateError) =>
        req.hist[3] = IF DeclaredLength(msg) > 0 THEN StateBody ELSE StateDone

\* C5 witness: a message with Content-Length given twice went from the
\* headers straight to Done
C5_Witness ==
    /\ req.hist = <<StateInit, StateHeaders, StateDone>>
    /\ Cardinality(ContentLengthLines(msg)) = 2

\* C6: a parse call entered in Body consumes exactly
\* min(declared - body length, bytes at hand) bytes and appends them to the
\* body; the body never grows past the declared length, and of Body and
\* Done the state is Done exactly when the two are equal.
C6_BodyConsumption ==
    [][ /\ req.state = StateBody =>
               LET data == buf \o Take(stream, Len(stream) - Len(stream'))
                   n == Min(DeclaredLength(msg) - Len(req.Body), Len(data))
               IN  /\ last'.n = n
                   /\ req'.Body = req.Body \o Take(data, n)
                   /\ buf' = Drop(data, n)
        /\ Len(req'.Body) <= DeclaredLength(msg)
        /\ req'.state \in {StateBody, StateDone} =>
               (req'.state = StateDone <=> Len(req'.Body) = DeclaredLength(msg)) ]_vars

\* C6 witness: a call entered in Body had more bytes at hand than the one
\* the body still lacked, took that one and left the rest
C6_Witness ==
    /\ last.entry = StateBody
    /\ last.n = 1
    /\ req.state = StateDone
    /\ buf # <<>>

\* C7, as claimed: when RequestFromReader returns a request it has consumed
\* exactly the request line, the headers, the blank line and the declared
\* body, and every byte of the connection after them is still there for a
\* following request.
C7_ExcessBytesPreserved ==
    (pc = "returned" /\ ~ret.isNil) =>
        /\ last.total = Len(EncodeHead(msg)) + DeclaredLength(msg)
        /\ buf \o stream = Drop(Encode(msg), last.total)

\* C8: a request line that is not three tokens, or whose third token is
\* not HTTP/1.1, puts the decoder in Error as soon as the line is
\* delivered, and RequestFromReader returns the malformed-request-line
\* error and no Request.
C8_MalformedRequestLine ==
    MalformedLine(msg) =>
        /\ req.state \in {StateInit, StateError}
        /\ Delivered >= Len(JoinTokens(msg.rl)) + Len(SEPARATOR) => pc = "returned"
        /\ pc = "returned" =>
               /\ req.state = StateError
               /\ ret.isNil
               /\ ret.err = ErrorMalformedRequestLine

\* C8 witness: a line of three tokens with the wrong version was rejected
C8_Witness ==
    /\ pc = "returned"
    /\ ret.err = ErrorMalformedRequestLine
    /\ Len(msg.rl) = 3

\* the path the router splits (mux.ServeHTTP) and the query mapping of a
\* decoded request; the Request of this decoder has no query field
RequestPath(r) == r.RequestLine.RequestTarget
RequestQuery(r) == IF "Query" \in DOMAIN r THEN r.Query ELSE <<>>

\* url.ParseQuery of one key=value pair, as a mapping from key to values
QueryOfTarget(target) ==
    LET cut == SplitN2(target, "?")
        pair == SplitN2(cut[2], "=")
    IN  IF Len(cut) # 2 \/ cut[2] = <<>> THEN <<>>
        ELSE pair[1] :> <<IF Len(pair) = 2 THEN pair[2] ELSE <<>> >>

\* C9, as claimed: a decoded request has the first token as its method, the
\* part of the target before the first '?' as its path and the part after
\* it parsed into its query mapping.
C9_PathAndQuery ==
    (pc = "returned" /\ ~ret.isNil) =>
        /\ ret.req.RequestLine.Method = msg.rl[1]
        /\ RequestPath(ret.req) = SplitN2(msg.rl[2], "?")[1]
        /\ RequestQuery(ret.req) = QueryOfTarget(msg.rl[2])

\* C10: across any sequence of partial reads the header table holds every
\* header line parsed so far exactly once: it is the table of a prefix of
\* the message's header lines, and of all of them once the header section
\* is complete.
C10_HeadersStoredOnce ==
    \E n \in 0..Len(msg.hdrs) :
        /\ req.Headers = ExpectedHeaders(Take(msg.hdrs, n))
        /\ req.state \in {StateBody, StateDone} => n = Len(msg.hdrs)

\* C10 witness: two Content-Length lines arrived over several reads of the
\* header section and are stored as one comma-joined value
C10_Witness ==
    /\ req.state = StateDone
    /\ last.entry = StateHeaders
    /\ Cardinality(ContentLengthLines(msg)) = 2
    /\ req.Headers[ContentLengthName] = <<"3", ",", "3">>

(***************************************************************************)
(* A header table used through its methods: Set, Replace, Delete and Parse *)
(* in any order, with names in several spellings.                          *)
(***************************************************************************)
\* the longest value a table of this specification holds
MaxValueLen == 3

UpperByte(c) ==
    IF c \in Range(LowerLetters)
    THEN UpperLetters[CHOOSE i \in DOMAIN LowerLetters : LowerLetters[i] = c]
    ELSE c

\* every spelling of a lower-case name
CaseVariants(name) ==
    { [i \in DOMAIN name |-> IF i \in S THEN UpperByte(name[i]) ELSE name[i]] :
        S \in SUBSET (DOMAIN name) }

KeyXA == <<"x","-","a">>

OpNames ==
    { <<"H","o","s","t">>, <<"h","O","s","T">>, <<"X","-","A">>, KeyXA }

OpValues == { <<"a">>, <<"b">> }

\* the header lines handed to Parse: one or two lines, with or without the
\* empty line that ends the section, and a line with a name that is no token
ParseLines ==
    LET line == [name : OpNames, value : OpValues]
    IN  { <<l>> : l \in line }
        \cup { <<l1, l2>> : l1 \in [name : {<<"H","o","s","t">>}, value : OpValues],
                             l2 \in [name : {KeyHost, KeyXA}, value : {<<"b">>}] }
        \cup { <<[name |-> NameBad, value |-> <<"a">>]>> }

RECURSIVE EncodeLines(_)
EncodeLines(ls) ==
    IF ls = <<>> THEN <<>>
    ELSE Head(ls).name \o <<":", " ">> \o Head(ls).value \o <<" ">> \o SEPARATOR
         \o EncodeLines(Tail(ls))

\* the entries of h whose key is name up to case
Entries(h, name) == {k \in DOMAIN h : ToLower(k) = ToLower(name)}

Fits(h) == \A k \in DOMAIN h : Len(h[k]) <= MaxValueLen

InitHeaders ==
    /\ msg = [rl |-> <<>>, hdrs |-> <<>>, tail |-> <<>>]
    /\ stream = <<>>
    /\ buf = <<>>
    /\ req = newRequest
    /\ pc = "idle"
    /\ ret = NoResult
    /\ last = NoCall
    /\ HeadersIdle /\ MuxIdle /\ ConnIdle

CallSet(name, value) ==
    /\ Fits(HeadersSet(htab, name, value))
    /\ htab' = HeadersSet(htab, name, value)
    /\ hop' = [op |-> "Set", name |-> name, value |-> value, before |-> htab, err |-> NoErr]
    /\ UNCHANGED <<decoderVars, muxVars, connVars>>

CallReplace(name, value) ==
    /\ htab' = HeadersReplace(htab, name, value)
    /\ hop' = [op |-> "Replace", name |-> name, value |-> value, before |-> htab, err |-> NoErr]
    /\ UNCHANGED <<decoderVars, muxVars, connVars>>

CallDelete(name) ==
    /\ htab' = HeadersDelete(htab, name)
    /\ hop' = [op |-> "Delete", name |-> name, value |-> <<>>, before |-> htab, err |-> NoErr]
    /\ UNCHANGED <<decoderVars, muxVars, connVars>>

\* Parse of one buffer: hop keeps the last line of the buffer
CallParse(ls, ended) ==
    \E res \in {HeadersParse(htab, EncodeLines(ls) \o (IF ended THEN SEPARATOR ELSE <<>>))} :
        /\ Fits(res.h)
        /\ htab' = res.h
        /\ hop' = [op |-> "Parse", name |-> ls[Len(ls)].name, value |-> ls[Len(ls)].value,
                   before |-> htab, err |-> res.err]
        /\ UNCHANGED <<decoderVars, muxVars, connVars>>

NextHeaders ==
    \/ \E name \in OpNames, value \in OpValues : CallSet(name, value)
    \/ \E name \in OpNames, value \in OpValues : CallReplace(name, value)
    \/ \E name \in OpNames : CallDelete(name)
    \/ \E ls \in ParseLines, ended \in BOOLEAN : CallParse(ls, ended)

SpecHeaders == InitHeaders /\ [][NextHeaders]_vars

\* C11: after Set, Replace or Parse has stored a value under a name, Get
\* with every spelling of the name finds the entry, with the same value for
\* all of them; the value is the one stored (Replace) or ends with it (Set,
\* Parse).
C11_GetCaseInsensitive ==
    (hop.op \in {"Set", "Replace", "Parse"} /\ hop.err = NoErr) =>
        \A n \in CaseVariants(ToLower(hop.name)) :
            LET got == HeadersGet(htab, n)
            IN  /\ got.exists
                /\ got = HeadersGet(htab, hop.name)
                /\ Len(got.value) >= Len(hop.value)
                /\ Drop(got.value, Len(got.value) - Len(hop.value)) = hop.value
                /\ hop.op = "Replace" => got.value = hop.value

\* C11 witness: a value stored by Parse under a name that is not written
\* in lower case
C11_Witness ==
    /\ hop.op = "Parse" /\ hop.err = NoErr
    /\ hop.name # ToLower(hop.name)
    /\ HeadersGet(htab, ToLower(hop.name)).exists

\* C12: whatever Set, Replace, Delete and Parse calls were made, every key
\* of the table is lower case, no two keys differ only by case, and after
\* Delete of a name the table has no entry for any spelling of it.
C12_KeysLowerCased ==
    /\ \A k \in DOMAIN htab : k = ToLower(k)
    /\ \A k1, k2 \in DOMAIN htab : ToLower(k1) = ToLower(k2) => k1 = k2
    /\ hop.op = "Delete" => Entries(htab, hop.name) = {}

\* C12 witness: Delete with a name in upper case removed an entry
C12_Witness ==
    /\ hop.op = "Delete"
    /\ hop.name # ToLower(hop.name)
    /\ Entries(hop.before, hop.name) # {}

\* C13: Set on a name that has a value leaves the old value, a comma and
\* the new value (the new value alone when the name had none); Replace
\* leaves the new value alone, however many Sets came before.
C13_SetAppendsReplaceOverwrites ==
    LET old == Entries(hop.before, hop.name)
        new == Entries(htab, hop.name)
    IN  /\ hop.op = "Set" =>
              /\ Cardinality(new) = 1
              /\ \A k \in new :
                    htab[k] = IF old = {} THEN hop.value
                              ELSE hop.before[CHOOSE o \in old : TRUE] \o <<",">> \o hop.value
        /\ hop.op = "Replace" =>
              /\ Cardinality(new) = 1
              /\ \A k \in new : htab[k] = hop.value

\* C13 witness: Replace on a name that two Sets had given a joined value
C13_Witness ==
    /\ hop.op = "Replace"
    /\ \E k \in Entries(hop.before, hop.name) : Len(hop.before[k]) >= 3
    /\ \E k \in Entries(htab, hop.name) : Len(htab[k]) = 1

(***************************************************************************)
(* Header names that are not tokens, through the decoder.                  *)
(***************************************************************************)
\* bytes that are no token characters
NonTokenSamples ==
    {"@", " ", "\t", "(", ")", ",", "/", ":", ";", "<", "=", ">", "?", "[", "]", "{", "}"}

\* the token characters: the letters, the digits and the fifteen specials
TokenCharacters ==
    Range(UpperLetters) \cup Range(LowerLetters) \cup Range(Digits) \cup TokenSpecials

\* isToken accepts each token character and refuses each of the samples,
\* alone or inside a name
TokenSetExact ==
    /\ \A c \in NonTokenSamples : ~isToken(<<c>>) /\ ~isToken(<<"H", c, "s">>)
    /\ \A c \in TokenCharacters : isToken(<<c>>)

\* the header lines of m whose name has a byte outside the token set
BadNameLines(m) ==
    {i \in DOMAIN m.hdrs :
        \E j \in DOMAIN m.hdrs[i].name : m.hdrs[i].name[j] \notin TokenCharacters}

\* the offset in the stream of the end of the first such line
EndOfFirstBadLine(m) ==
    LET first == CHOOSE i \in BadNameLines(m) : \A j \in BadNameLines(m) : i <= j
    IN  Len(JoinTokens(m.rl)) + Len(SEPARATOR) + Len(EncodeHeaders(SubSeq(m.hdrs, 1, first)))

\* C14: isToken accepts the letters, the digits and the fifteen specials
\* and no other byte; once a header line whose name has another byte has
\* arrived whole, parse has failed with the malformed-header error, the
\* request is in Error and RequestFromReader has returned that error and no
\* Request; before that it is still reading.
C14_MalformedHeaderName ==
    /\ TokenSetExact
    /\ (~MalformedLine(msg) /\ BadNameLines(msg) # {}) =>
          /\ Delivered >= EndOfFirstBadLine(msg) =>
                /\ pc = "returned"
                /\ ret.isNil /\ ret.err = ErrorMalformedHeaderName
                /\ req.state = StateError
                /\ last.n = 0 /\ last.err = ErrorMalformedHeaderName
          /\ Delivered < EndOfFirstBadLine(msg) =>
                /\ pc = "reading"
                /\ req.state \in {StateInit, StateHeaders}
          /\ ret.isNil

\* C14 witness: the line with the bad name came second, after a good line,
\* in a later read than the request line, and the call was refused
C14_Witness ==
    /\ ~MalformedLine(msg)
    /\ Len(msg.hdrs) = 2 /\ BadNameLines(msg) = {2}
    /\ last.entry = StateHeaders
    /\ pc = "returned" /\ ret.isNil /\ ret.err = ErrorMalformedHeaderName
    /\ req.state = StateError

(***************************************************************************)
(* internal/response: the writer a handler answers through.  out is the    *)
(* sequence of Write calls made on the connection.                         *)
(***************************************************************************)
StatusOk == 200
StatusCreated == 201
StatusNotFound == 404
StatusBadRequest == 400
StatusInternalServerError == 500

\* fmt.Sprintf("%d", n) for n >= 0
RECURSIVE Itoa(_)
Itoa(n) ==
    IF n < 10 THEN <<Digits[n + 1]>>
    ELSE Itoa(n \div 10) \o <<Digits[(n % 10) + 1]>>

\* one Write on the connection: the method that made it and what it wrote
\* (WriteHeaders writes the lines of h in the order ForEach gives them)
Written(op, bytes, h) == [op |-> op, bytes |-> bytes, h |-> h]

\* Writer.WriteStatusLine: the line of the five known codes; any other code
\* is an error and nothing is written
WriteStatusLine(w, statusCode) ==
    CASE statusCode = StatusOk ->
            Append(w, Written("WriteStatusLine", <<"H","T","T","P","/","1",".","1"," ","2","0","0"," ","O","K",CR,LF>>, <<>>))
      [] statusCode = StatusCreated ->
            Append(w, Written("WriteStatusLine", <<"H","T","T","P","/","1",".","1"," ","2","0","1"," ","C","r","e","a","t","e","d",CR,LF>>, <<>>))
      [] statusCode = StatusNotFound ->
            Append(w, Written("WriteStatusLine", <<"H","T","T","P","/","1",".","1"," ","4","0","4"," ","N","o","t"," ","F","o","u","n","d",CR,LF>>, <<>>))
      [] statusCode = StatusBadRequest ->
            Append(w, Written("WriteStatusLine", <<"H","T","T","P","/","1",".","1"," ","4","0","0"," ","B","a","d"," ","R","e","q","u","e","s","t",CR,LF>>, <<>>))
      [] statusCode = StatusInternalServerError ->
            Append(w, Written("WriteStatusLine", <<"H","T","T","P","/","1",".","1"," ","5","0","0"," ","I","n","t","e","r","n","a","l"," ","S","e","r","v","e","r"," ","E","r","r","o","r",CR,LF>>, <<>>))
      [] OTHER -> w

\* Writer.WriteHeaders
WriteHeaders(w, h) == Append(w, Written("WriteHeaders", <<>>, h))

\* Writer.WriteBody
WriteBody(w, p) == Append(w, Written("WriteBody", p, <<>>))

\* GetDefaultHeaders
GetDefaultHeaders(contentLen) ==
    LET h1 == HeadersSet(NewHeaders, NameCL, Itoa(contentLen))
        h2 == HeadersSet(h1, <<"C","o","n","n","e","c","t","i","o","n">>, <<"c","l","o","s","e">>)
    IN  HeadersSet(h2, <<"C","o","n","t","e","n","t","-","T","y","p","e">>, <<"t","e","x","t","/","p","l","a","i","n">>)

(***************************************************************************)
(* internal/mux: handlers, middlewares, Chain, HandleFunc and ServeHTTP.   *)
(* A HandlerFunc is a base handler with the middlewares wrapped round it,  *)
(* outermost first.  A call works on the writer, the request and the log   *)
(* of the code that ran: st = [out, r, calls].                             *)
(***************************************************************************)
Ran(who, what, params) == [who |-> who, what |-> what, params |-> params]

\* a base handler: it notes the parameters it was given and answers 200
BaseHandler(id, st) ==
    [st EXCEPT !.calls = Append(@, Ran(id, "handler", st.r.PathParams)),
               !.out = WriteHeaders(WriteStatusLine(@, StatusOk), GetDefaultHeaders(0))]

\* a middleware applied to a handler: the handler it returns
Wrap(m, handler) == [handler EXCEPT !.wraps = <<m>> \o @]

\* a call of a handler: each middleware runs its code before next(w, r),
\* calls next, then runs its code after it
RECURSIVE CallHandler(_, _)
CallHandler(handler, st) ==
    IF handler.wraps = <<>> THEN BaseHandler(handler.base, st)
    ELSE LET m == Head(handler.wraps)
             next == [handler EXCEPT !.wraps = Tail(@)]
             st1 == [st EXCEPT !.calls = Append(@, Ran(m, "before", <<>>))]
             st2 == CallHandler(next, st1)
         IN  [st2 EXCEPT !.calls = Append(@, Ran(m, "after", <<>>))]

\* Chain with the loop running forwards
RECURSIVE ChainForwardLoop(_, _, _)
ChainForwardLoop(handler, mws, i) ==
    IF i > Len(mws) THEN handler
    ELSE ChainForwardLoop(Wrap(mws[i], handler), mws, i + 1)

ChainForward(h, mws) == ChainForwardLoop(h, mws, 1)

\* Chain: for i := len(mws) - 1; i >= 0; i-- { handler = mws[i](handler) }
RECURSIVE ChainLoop(_, _, _)
ChainLoop(handler, mws, i) ==
    IF i < 1 THEN handler
    ELSE ChainLoop(Wrap(mws[i], handler), mws, i - 1)

Chain(h, mws) == ChainLoop(h, mws, Len(mws))

\* strings.Trim(s, cutset)
RECURSIVE TrimCutLeft(_, _)
TrimCutLeft(s, cutset) ==
    IF s # <<>> /\ Head(s) \in cutset THEN TrimCutLeft(Tail(s), cutset) ELSE s

RECURSIVE TrimCutRight(_, _)
TrimCutRight(s, cutset) ==
    IF s # <<>> /\ s[Len(s)] \in cutset THEN TrimCutRight(Take(s, Len(s) - 1), cutset) ELSE s

Trim(s, cutset) == TrimCutRight(TrimCutLeft(s, cutset), cutset)

HasPrefix(s, prefix) == Len(s) >= Len(prefix) /\ Take(s, Len(prefix)) = prefix

HasSuffix(s, suffix) == Len(s) >= Len(suffix) /\ Drop(s, Len(s) - Len(suffix)) = suffix

\* the route HandleFunc appends
NewRoute(method, path, handler) ==
    [method |-> method, handler |-> handler, parts |-> Split(Trim(path, {"/"}), "/")]

\* Mux.HandleFunc
HandleFunc(rs, method, path, handler) == Append(rs, NewRoute(method, path, handler))

\* params[paramName] = requestParts[i]
MapPut(m, k, v) == IF k \in DOMAIN m THEN [m EXCEPT ![k] = v] ELSE m @@ (k :> v)

\* the comparison of the parts that folds case
RECURSIVE MatchPartsFold(_, _, _, _)
MatchPartsFold(parts, requestParts, i, params) ==
    IF i > Len(parts) THEN [match |-> TRUE, params |-> params]
    ELSE IF HasPrefix(parts[i], <<"{">>) /\ HasSuffix(parts[i], <<"}">>)
    THEN MatchPartsFold(parts, requestParts, i + 1,
                        MapPut(params, Trim(parts[i], {"{", "}"}), requestParts[i]))
    ELSE IF ToLower(parts[i]) # ToLower(requestParts[i])
    THEN [match |-> FALSE, params |-> params]
    ELSE MatchPartsFold(parts, requestParts, i + 1, params)

\* the comparison that takes every part with an opening brace for a
\* parameter
RECURSIVE MatchPartsOpenBrace(_, _, _, _)
MatchPartsOpenBrace(parts, requestParts, i, params) ==
    IF i > Len(parts) THEN [match |-> TRUE, params |-> params]
    ELSE IF HasPrefix(parts[i], <<"{">>)
    THEN MatchPartsOpenBrace(parts, requestParts, i + 1,
                             MapPut(params, Trim(parts[i], {"{", "}"}), requestParts[i]))
    ELSE IF parts[i] # requestParts[i]
    THEN [match |-> FALSE, params |-> params]
    ELSE MatchPartsOpenBrace(parts, requestParts, i + 1, params)

\* ServeHTTP, the loop over the parts of one route: a part in braces takes
\* the request part as its parameter, any other part must equal it
RECURSIVE MatchParts(_, _, _, _)
MatchParts(parts, requestParts, i, params) ==
    IF i > Len(parts) THEN [match |-> TRUE, params |-> params]
    ELSE IF HasPrefix(parts[i], <<"{">>) /\ HasSuffix(parts[i], <<"}">>)
    THEN MatchParts(parts, requestParts, i + 1,
                    MapPut(params, Trim(parts[i], {"{", "}"}), requestParts[i]))
    ELSE IF parts[i] # requestParts[i]
    THEN [match |-> FALSE, params |-> params]
    ELSE MatchParts(parts, requestParts, i + 1, params)

\* ServeHTTP, the body of the loop over the routes up to "if match"
RouteMatches(route, r, requestParts) ==
    IF route.method # r.RequestLine.Method THEN [match |-> FALSE, params |-> <<>>]
    ELSE IF Len(route.parts) # Len(requestParts) THEN [match |-> FALSE, params |-> <<>>]
    ELSE MatchParts(route.parts, requestParts, 1, <<>>)

Body404 == <<"4","0","4"," ","N","o","t"," ","F","o","u","n","d">>

\* the not-found answer with the header block written first
NotFoundHeadersFirst(st) ==
    LET h0 == GetDefaultHeaders(0)
        h1 == HeadersReplace(h0, <<"C","o","n","t","e","n","t","-","l","e","n","g","t","h">>, <<"1","3">>)
        h2 == HeadersReplace(h1, <<"C","o","n","t","e","n","t","-","t","y","p","e">>, <<"t","e","x","t","/","p","l","a","i","n">>)
    IN  [st EXCEPT !.out = WriteBody(WriteStatusLine(WriteHeaders(@, h2), StatusNotFound), Body404)]

\* ServeHTTP after the loop: the 404 answer
NotFound(st) ==
    LET h0 == GetDefaultHeaders(0)
        h1 == HeadersReplace(h0, <<"C","o","n","t","e","n","t","-","l","e","n","g","t","h">>, <<"1","3">>)
        h2 == HeadersReplace(h1, <<"C","o","n","t","e","n","t","-","t","y","p","e">>, <<"t","e","x","t","/","p","l","a","i","n">>)
    IN  [st EXCEPT !.out = WriteBody(WriteHeaders(WriteStatusLine(@, StatusNotFound), h2), Body404)]

\* the loop over the routes with one params map for all of them, made
\* before the loop: what a route bound before it failed stays in the map
RECURSIVE ServeLoopSharedParams(_, _, _, _)
ServeLoopSharedParams(rs, i, st, requestParts) ==
    IF i > Len(rs) THEN NotFound(st)
    ELSE IF rs[i].method # st.r.RequestLine.Method \/ Len(rs[i].parts) # Len(requestParts)
    THEN ServeLoopSharedParams(rs, i + 1, st, requestParts)
    ELSE LET m == MatchParts(rs[i].parts, requestParts, 1, st.r.PathParams)
         IN  IF m.match
             THEN CallHandler(rs[i].handler, [st EXCEPT !.r.PathParams = m.params])
             ELSE ServeLoopSharedParams(rs, i + 1, [st EXCEPT !.r.PathParams = m.params],
                                        requestParts)

\* the loop over the routes without the return after the handler
RECURSIVE ServeLoopNoReturn(_, _, _, _)
ServeLoopNoReturn(rs, i, st, requestParts) ==
    IF i > Len(rs) THEN NotFound(st)
    ELSE LET m == RouteMatches(rs[i], st.r, requestParts)
         IN  IF m.match
             THEN ServeLoopNoReturn(rs, i + 1,
                      CallHandler(rs[i].handler, [st EXCEPT !.r.PathParams = m.params]),
                      requestParts)
             ELSE ServeLoopNoReturn(rs, i + 1, st, requestParts)

\* ServeHTTP, the loop over the routes: the first route that matches gets
\* the request with its parameters, and the function returns
RECURSIVE ServeLoop(_, _, _, _)
ServeLoop(rs, i, st, requestParts) ==
    IF i > Len(rs) THEN NotFound(st)
    ELSE LET m == RouteMatches(rs[i], st.r, requestParts)
         IN  IF m.match
             THEN CallHandler(rs[i].handler, [st EXCEPT !.r.PathParams = m.params])
             ELSE ServeLoop(rs, i + 1, st, requestParts)

\* Mux.ServeHTTP
ServeHTTP(rs, st) ==
    ServeLoop(rs, 1, st, Split(Trim(st.r.RequestLine.RequestTarget, {"/"}), "/"))

(***************************************************************************)
(* A Mux being built and then asked to serve one decoded request.  msg     *)
(* keeps what was registered and what was asked as lists of segments.      *)
(***************************************************************************)
MaxRoutes == 2

POST == <<"P","O","S","T">>

Methods == {GET, POST}

\* the patterns registered: their text and the segments they stand for
Patterns ==
    { [text |-> <<"/","u","s","e","r","s","/","{","i","d","}">>,
       segs |-> <<[kind |-> "lit", text |-> <<"u","s","e","r","s">>], [kind |-> "param", text |-> <<"i","d">>]>>],
      [text |-> <<"/","a","/","{","x","}">>,
       segs |-> <<[kind |-> "lit", text |-> <<"a">>], [kind |-> "param", text |-> <<"x">>]>>],
      [text |-> <<"/","a","/","b">>,
       segs |-> <<[kind |-> "lit", text |-> <<"a">>], [kind |-> "lit", text |-> <<"b">>]>>],
      [text |-> <<"/">>,
       segs |-> <<[kind |-> "lit", text |-> <<>>]>>],
      [text |-> <<"{","p","}","/","{","q","}","/">>,
       segs |-> <<[kind |-> "param", text |-> <<"p">>], [kind |-> "param", text |-> <<"q">>]>>] }

\* the request targets served: their text and their segments.  The target
\* is split as it stands, a query included: RequestTarget is all the
\* decoder gives ServeHTTP to read the path from.
Targets ==
    { [text |-> <<"/","u","s","e","r","s","/","4","2">>,
       segs |-> <<<<"u","s","e","r","s">>, <<"4","2">>>>],
      [text |-> <<"/","u","s","e","r","s","/","4","2","/","e","x","t","r","a">>,
       segs |-> <<<<"u","s","e","r","s">>, <<"4","2">>, <<"e","x","t","r","a">>>>],
      [text |-> <<"/","U","s","e","r","s","/","4","2">>,
       segs |-> <<<<"U","s","e","r","s">>, <<"4","2">>>>],
      [text |-> <<"/","a","/","b">>,
       segs |-> <<<<"a">>, <<"b">>>>],
      [text |-> <<"/">>,
       segs |-> <<<<>>>>],
      [text |-> <<"/","a","/","b","?","q","=","1">>,
       segs |-> <<<<"a">>, <<"b","?","q","=","1">>>>],
      [text |-> <<"/","a","/","B","/">>,
       segs |-> <<<<"a">>, <<"B">>>>] }

InitMux ==
    /\ msg = [regs |-> <<>>, method |-> <<>>, segs |-> <<>>]
    /\ stream = <<>>
    /\ buf = <<>>
    /\ req = newRequest
    /\ pc = "building"
    /\ ret = NoResult
    /\ last = NoCall
    /\ HeadersIdle /\ MuxIdle /\ ConnIdle

\* m.HandleFunc(method, path, handler): the handlers are numbered in the
\* order they are registered
Register(method, pattern) ==
    /\ pc = "building"
    /\ Len(routes) < MaxRoutes
    /\ routes' = HandleFunc(routes, method, pattern.text,
                            [base |-> Len(routes) + 1, wraps |-> <<>>])
    /\ msg' = [msg EXCEPT !.regs = Append(@, [method |-> method, segs |-> pattern.segs])]
    /\ UNCHANGED <<stream, buf, req, pc, ret, last, headerVars, chain, connVars>>

\* the request as the decoder hands it over
DecodedRequest(method, target) ==
    [newRequest EXCEPT !.RequestLine = [Method |-> method, RequestTarget |-> target,
                                        HttpVersion |-> <<"1",".","1">>],
                       !.state = StateDone,
                       !.hist = <<StateInit, StateHeaders, StateDone>>]

\* m.ServeHTTP(w, r)
Dispatch(method, target) ==
    /\ pc = "building"
    /\ \E res \in {ServeHTTP(routes, [out |-> out, r |-> DecodedRequest(method, target.text),
                                      calls |-> calls])} :
           /\ req' = res.r
           /\ out' = res.out
           /\ calls' = res.calls
    /\ pc' = "served"
    /\ msg' = [msg EXCEPT !.method = method, !.segs = target.segs]
    /\ UNCHANGED <<stream, buf, ret, last, headerVars, muxVars, closed>>

NextMux ==
    \/ \E method \in Methods, pattern \in Patterns : Register(method, pattern)
    \/ \E method \in Methods, target \in Targets : Dispatch(method, target)

SpecMux == InitMux /\ [][NextMux]_vars

\* a registration matches the request: same method, as many segments, and
\* every literal segment equal to the request segment in its place
Matches(reg) ==
    /\ reg.method = msg.method
    /\ Len(reg.segs) = Len(msg.segs)
    /\ \A i \in DOMAIN reg.segs : reg.segs[i].kind = "lit" => reg.segs[i].text = msg.segs[i]

\* the parameters a matching registration binds
Bound(reg) ==
    LET names == {reg.segs[i].text : i \in {j \in DOMAIN reg.segs : reg.segs[j].kind = "param"}}
    IN  [n \in names |->
           msg.segs[CHOOSE i \in DOMAIN reg.segs : reg.segs[i].kind = "param" /\ reg.segs[i].text = n]]

Matching == {i \in DOMAIN msg.regs : Matches(msg.regs[i])}

FirstMatching == CHOOSE i \in Matching : \A j \in Matching : i <= j

\* the request the Mux was given, before ServeHTTP touched it
Served == [req EXCEPT !.PathParams = <<>>]

RequestParts == Split(Trim(req.RequestLine.RequestTarget, {"/"}), "/")

\* C15: for every registered route and every request served, the route
\* passes the comparison of ServeHTTP exactly when the methods are equal,
\* the segment counts are equal and every literal segment equals the
\* request segment; the comparison then binds every parameter name to the
\* request segment in its place, and these are the PathParams the handler
\* that ran was given and the request keeps.
C15_RouteMatch ==
    pc = "served" =>
        /\ \A i \in DOMAIN routes :
              LET m == RouteMatches(routes[i], Served, RequestParts)
              IN  /\ m.match <=> Matches(msg.regs[i])
                  /\ m.match => m.params = Bound(msg.regs[i])
        /\ \A k \in DOMAIN calls :
              /\ Matches(msg.regs[calls[k].who])
              /\ calls[k].params = Bound(msg.regs[calls[k].who])
              /\ req.PathParams = calls[k].params
        /\ Matching # {} => calls # <<>>

\* C15 witness: GET /users/{id} served GET /users/42 with id = 42
C15_Witness ==
    /\ pc = "served"
    /\ Len(routes) = 1
    /\ routes[1].method = GET
    /\ routes[1].parts = <<<<"u","s","e","r","s">>, <<"{","i","d","}">>>>
    /\ req.RequestLine.Method = GET
    /\ req.RequestLine.RequestTarget = <<"/","u","s","e","r","s","/","4","2">>
    /\ calls = <<Ran(1, "handler", (<<"i","d">> :> <<"4","2">>))>>
    /\ req.PathParams[<<"i","d">>] = <<"4","2">>

\* C16: when at least one route matches, the handler of the matching route
\* registered first runs once with that route's parameters, no other
\* handler runs, and the 404 answer is not written.
C16_FirstMatchWins ==
    (pc = "served" /\ Matching # {}) =>
        /\ calls = <<Ran(FirstMatching, "handler", Bound(msg.regs[FirstMatching]))>>
        /\ req.PathParams = Bound(msg.regs[FirstMatching])
        /\ \A k \in DOMAIN out : out[k].op = "WriteBody" => out[k].bytes # Body404
        /\ \A k \in DOMAIN out : out[k].op = "WriteStatusLine" =>
              out[k] \notin Range(WriteStatusLine(<<>>, StatusNotFound))

\* C16 witness: GET /a/{x} registered before GET /a/b, and GET /a/b served
\* by the first with x = b
C16_Witness ==
    /\ pc = "served"
    /\ Matching = {1, 2}
    /\ Len(msg.segs) = 2
    /\ msg.regs[1].segs[2].kind = "param"
    /\ msg.regs[2].segs[2].kind = "lit"
    /\ calls = <<Ran(1, "handler", (<<"x">> :> <<"b">>))>>

\* C17: when no route matches, no handler runs, the request keeps no
\* parameters, and ServeHTTP writes the 404 status line, then the header
\* block (Content-Length 13, Connection close, Content-Type text/plain),
\* then the body "404 Not Found", and nothing else.
C17_NotFound ==
    (pc = "served" /\ Matching = {}) =>
        /\ calls = <<>>
        /\ req.PathParams = <<>>
        /\ Len(out) = 3
        /\ out[1].op = "WriteStatusLine"
        /\ <<out[1]>> = WriteStatusLine(<<>>, StatusNotFound)
        /\ out[2].op = "WriteHeaders"
        /\ DOMAIN out[2].h = {ContentLengthName, <<"c","o","n","n","e","c","t","i","o","n">>, <<"c","o","n","t","e","n","t","-","t","y","p","e">>}
        /\ out[2].h[ContentLengthName] = <<"1","3">>
        /\ out[2].h[<<"c","o","n","n","e","c","t","i","o","n">>] = <<"c","l","o","s","e">>
        /\ out[2].h[<<"c","o","n","t","e","n","t","-","t","y","p","e">>] = <<"t","e","x","t","/","p","l","a","i","n">>
        /\ out[3].op = "WriteBody"
        /\ out[3].bytes = Body404
        /\ Len(out[3].bytes) = 13

\* C17 witness: two routes registered, one with the method of the request
\* and one with its path, and the 404 answer written
C17_Witness ==
    /\ pc = "served"
    /\ Len(routes) = 2
    /\ Matching = {}
    /\ \E i \in DOMAIN msg.regs : msg.regs[i].method = msg.method
    /\ \E i \in DOMAIN msg.regs :
          /\ Len(msg.regs[i].segs) = Len(msg.segs)
          /\ \A j \in DOMAIN msg.segs : msg.regs[i].segs[j].text = msg.segs[j]
    /\ Len(out) = 3

(***************************************************************************)
(* Chain(h, mws...) built once and the handler it returns called with a    *)
(* request.                                                                *)
(***************************************************************************)
MaxMiddlewares == 3

\* the middlewares told apart by number, and the base handlers
MiddlewareIds == {11, 12, 13}

BaseIds == {1, 2}

MiddlewareLists == UNION { [1..n -> MiddlewareIds] : n \in 0..MaxMiddlewares }

InitChain ==
    /\ msg = [regs |-> <<>>, method |-> <<>>, segs |-> <<>>]
    /\ stream = <<>>
    /\ buf = <<>>
    /\ req = DecodedRequest(GET, TargetX)
    /\ pc = "chaining"
    /\ ret = NoResult
    /\ last = NoCall
    /\ routes = <<>>
    /\ chain \in [h : BaseIds, mws : MiddlewareLists,
                   handler : {NoChain.handler}, built : {FALSE}]
    /\ HeadersIdle /\ ConnIdle

\* handler := Chain(h, mws...)
BuildChain ==
    /\ pc = "chaining"
    /\ ~chain.built
    /\ chain' = [chain EXCEPT !.handler = Chain([base |-> chain.h, wraps |-> <<>>], chain.mws),
                              !.built = TRUE]
    /\ UNCHANGED <<decoderVars, headerVars, routes, connVars>>

\* handler(w, r)
CallChain ==
    /\ pc = "chaining"
    /\ chain.built
    /\ \E res \in {CallHandler(chain.handler, [out |-> out, r |-> req, calls |-> calls])} :
           /\ req' = res.r
           /\ out' = res.out
           /\ calls' = res.calls
    /\ pc' = "served"
    /\ UNCHANGED <<msg, stream, buf, ret, last, headerVars, muxVars, closed>>

NextChain == BuildChain \/ CallChain

SpecChain == InitChain /\ [][NextChain]_vars

\* the order section 4.3 asks for: m1 before, ..., mn before, h, mn after,
\* ..., m1 after
ExpectedLog(h, mws) ==
    LET n == Len(mws)
    IN  [i \in 1..(2 * n + 1) |->
            IF i <= n THEN Ran(mws[i], "before", <<>>)
            ELSE IF i = n + 1 THEN Ran(h, "handler", <<>>)
            ELSE Ran(mws[2 * n + 2 - i], "after", <<>>)]

\* C18: a call of Chain(h, m1, ..., mn) runs m1's code before next, ...,
\* mn's code before next, h, mn's code after next, ..., m1's code after
\* next, and nothing else; with no middleware it runs h alone, and in
\* every case the connection gets what h alone writes.
C18_MiddlewareOrder ==
    pc = "served" =>
        /\ calls = ExpectedLog(chain.h, chain.mws)
        /\ out = BaseHandler(chain.h, [out |-> <<>>, r |-> req, calls |-> <<>>]).out
        /\ chain.mws = <<>> => calls = <<Ran(chain.h, "handler", <<>>)>>

\* C18 witness: three different middlewares round a handler, called
C18_Witness ==
    /\ pc = "served"
    /\ Len(chain.mws) = 3
    /\ Cardinality(Range(chain.mws)) = 3
    /\ Len(calls) = 7
    /\ calls[1].who = chain.mws[1] /\ calls[1].what = "before"
    /\ calls[7].who = chain.mws[1] /\ calls[7].what = "after"

(***************************************************************************)
(* internal/server: runConnection on a connection whose peer sends a       *)
(* request, or the beginning of one, and then closes its side.             *)
(***************************************************************************)
HeaderLineOf(name, value) == CHOOSE h \in HeaderLines : h.name = name /\ h.value = value

\* what the peers of this specification mean to send
ServerMessages ==
    [rl : { <<GET, TargetQ, VersionOK>>, <<GET, TargetX, VersionFOO>> },
     hdrs : { <<>>,
              <<HeaderLineOf(NameCL, <<"3">>)>>,
              <<HeaderLineOf(NameHost, <<"a",":","b">>), HeaderLineOf(NameCL, <<"3">>)>>,
              <<HeaderLineOf(NameBad, <<"a">>)>> },
     tail : { <<>>, <<"a","b","c">> }]

\* the peer closes after cut bytes of its message
InitServer ==
    /\ \E m \in ServerMessages : \E cut \in 0..Len(Encode(m)) :
           /\ msg = [rl |-> m.rl, hdrs |-> m.hdrs, tail |-> m.tail, cut |-> cut]
           /\ stream = Take(Encode(m), cut)
    /\ buf = <<>>
    /\ req = newRequest
    /\ pc = "reading"
    /\ ret = NoResult
    /\ last = NoCall
    /\ HeadersIdle /\ MuxIdle /\ ConnIdle

\* runConnection leaving the connection open after the 400 answer
RespondKeepOpen ==
    /\ pc = "returned"
    /\ IF ret.err # NoErr
       THEN /\ out' = WriteHeaders(WriteStatusLine(out, StatusBadRequest), GetDefaultHeaders(0))
            /\ calls' = calls
            /\ closed' = FALSE
       ELSE \E st \in {BaseHandler(1, [out |-> out, r |-> ret.req, calls |-> calls])} :
                /\ out' = st.out
                /\ calls' = st.calls
                /\ closed' = TRUE
    /\ pc' = "closed"
    /\ UNCHANGED <<msg, stream, buf, req, ret, last, headerVars, muxVars>>

\* runConnection with the handler called on a failed decode as well
RespondAlways ==
    /\ pc = "returned"
    /\ \E st \in {BaseHandler(1, [out |-> out, r |-> ret.req, calls |-> calls])} :
           /\ out' = st.out
           /\ calls' = st.calls
    /\ closed' = TRUE
    /\ pc' = "closed"
    /\ UNCHANGED <<msg, stream, buf, req, ret, last, headerVars, muxVars>>

\* runConnection after RequestFromReader has returned: the 400 answer on an
\* error, the handler otherwise, and the deferred conn.Close()
Respond ==
    /\ pc = "returned"
    /\ IF ret.err # NoErr
       THEN /\ out' = WriteHeaders(WriteStatusLine(out, StatusBadRequest), GetDefaultHeaders(0))
            /\ calls' = calls
       ELSE \E st \in {BaseHandler(1, [out |-> out, r |-> ret.req, calls |-> calls])} :
                /\ out' = st.out
                /\ calls' = st.calls
    /\ closed' = TRUE
    /\ pc' = "closed"
    /\ UNCHANGED <<msg, stream, buf, req, ret, last, headerVars, muxVars>>

NextServer ==
    \/ \E k \in ChunkSizes(stream, buf) : ReadChunk(k)
    \/ ReadEOF
    \/ Respond

SpecServer == InitServer /\ [][NextServer]_vars

\* what the bytes the peer sent amount to: a request, a malformed request
\* line, a malformed header name, or a request cut short
Outcome(m) ==
    IF MalformedLine(m)
    THEN IF m.cut >= Len(JoinTokens(m.rl)) + Len(SEPARATOR)
         THEN ErrorMalformedRequestLine ELSE ErrorConnectionClosed
    ELSE IF BadNameLines(m) # {}
    THEN IF m.cut >= EndOfFirstBadLine(m)
         THEN ErrorMalformedHeaderName ELSE ErrorConnectionClosed
    ELSE IF m.cut >= Len(EncodeHead(m)) + DeclaredLength(m)
    THEN NoErr ELSE ErrorConnectionClosed

\* C19: when the stream ends before the request is Done (and before a
\* malformed line has arrived whole), RequestFromReader returns no Request
\* and the connection-closed error, which is neither of the malformed
\* errors; it returns that error in no other case.
C19_ConnectionClosedEarly ==
    /\ ErrorConnectionClosed \notin
          {NoErr, ErrorMalformedRequestLine, ErrorMalformedHeaderName, ErrorMalformedFieldLine}
    /\ pc # "reading" =>
          /\ (Outcome(msg) = ErrorConnectionClosed) <=> (ret.err = ErrorConnectionClosed)
          /\ ret.err = ErrorConnectionClosed =>
                /\ ret.isNil
                /\ req.state \notin {StateDone, StateError}
                /\ stream = <<>>
          /\ ~ret.isNil => ret.req.state = StateDone /\ ret.err = NoErr
    /\ (pc = "reading" /\ stream = <<>>) => ~done(req)

\* C19 witness: the stream ended in the middle of a body of three bytes
C19_Witness ==
    /\ pc = "returned"
    /\ req.state = StateBody
    /\ Len(req.Body) \in {1, 2}
    /\ ret.isNil /\ ret.err = ErrorConnectionClosed

\* a 400-class status line
Is4xx(e) ==
    /\ e.op = "WriteStatusLine"
    /\ Len(e.bytes) >= 12
    /\ Take(e.bytes, 10) = <<"H","T","T","P","/","1",".","1"," ","4">>

\* C20: on a connection whose request fails to decode (malformed request
\* line, malformed header name, or closed early) runConnection writes the
\* 400 status line and a header block, calls no handler and closes the
\* connection; the handler runs only on a decoded request, and nothing is
\* written before RequestFromReader has returned.
C20_BadRequestOnDecodeFailure ==
    /\ pc = "closed" =>
          /\ closed
          /\ Outcome(msg) # NoErr =>
                /\ ret.isNil /\ ret.err = Outcome(msg)
                /\ calls = <<>>
                /\ Len(out) = 2
                /\ Is4xx(out[1])
                /\ out[2].op = "WriteHeaders"
          /\ Outcome(msg) = NoErr =>
                /\ calls = <<Ran(1, "handler", <<>>)>>
                /\ \A k \in DOMAIN out : ~Is4xx(out[k])
    /\ pc # "closed" => out = <<>> /\ calls = <<>> /\ ~closed

\* C20 witness: a header name that is no token, answered with 400 and the
\* connection closed
C20_Witness ==
    /\ pc = "closed" /\ closed
    /\ ret.err = ErrorMalformedHeaderName
    /\ calls = <<>>
    /\ Len(out) = 2 /\ Is4xx(out[1])

(***************************************************************************)
(* internal/response: the answers the library itself produces, the         *)
(* RespondNNN helpers and Writer.JSON.  Each works on a fresh writer.      *)
(***************************************************************************)
TAB == "\t"

Body200 ==
    <<LF,TAB,"<","h","t","m","l",">",LF,TAB,"<","h","e","a","d",">",LF,TAB,
      TAB,"<","t","i","t","l","e",">","2","0","0"," ","O","K","<","/","t","i",
      "t","l","e",">",LF,TAB,"<","/","h","e","a","d",">",LF,TAB,"<","b","o",
      "d","y",">",LF,TAB,TAB,"<","h","1",">","S","u","c","c","e","s","s","!",
      "<","/","h","1",">",LF,TAB,TAB,"<","p",">","Y","o","u","r"," ","r","e",
      "q","u","e","s","t"," ","w","a","s"," ","a","n"," ","a","b","s","o","l",
      "u","t","e"," ","b","a","n","g","e","r",".","<","/","p",">",LF,TAB,"<",
      "/","b","o","d","y",">",LF,TAB,"<","/","h","t","m","l",">",LF,TAB>>

Body400 ==
    <<LF,"<","h","t","m","l",">",LF," "," ","<","h","e","a","d",">",LF," ",
      " "," "," ","<","t","i","t","l","e",">","4","0","0"," ","B","a","d"," ",
      "R","e","q","u","e","s","t","<","/","t","i","t","l","e",">",LF," "," ",
      "<","/","h","e","a","d",">",LF," "," ","<","b","o","d","y",">",LF," ",
      " "," "," ","<","h","1",">","B","a","d"," ","R","e","q","u","e","s","t",
      "<","/","h","1",">",LF," "," "," "," ","<","p",">","Y","o","u","r"," ",
      "r","e","q","u","e","s","t"," ","h","o","n","e","s","t","l","y"," ","k",
      "i","n","d","a"," ","s","u","c","k","e","d",".","<","/","p",">",LF," ",
      " ","<","/","b","o","d","y",">",LF,"<","/","h","t","m","l",">",LF,TAB>>

Body404Page ==
    <<LF,"<","h","t","m","l",">",LF," "," ","<","h","e","a","d",">",LF," ",
      " "," "," ","<","t","i","t","l","e",">","4","0","4"," ","N","o","t"," ",
      "f","o","u","n","d","<","/","t","i","t","l","e",">",LF," "," ","<","/",
      "h","e","a","d",">",LF," "," ","<","b","o","d","y",">"," ",LF," "," ",
      " "," ","<","h","1",">","N","o","t"," ","f","o","u","n","d","<","/","h",
      "1",">",LF," "," "," "," ","<","p",">","Y","o","u","r"," ","r","e","q",
      "u","e","s","t"," ","h","o","n","e","s","t","l","y"," ","k","i","n","d",
      "a"," ","s","u","c","k","e","d",".","<","/","p",">",LF," "," ","<","/",
      "b","o","d","y",">",LF,"<","/","h","t","m","l",">",LF,TAB>>

Body500 ==
    <<LF,"<","h","t","m","l",">",LF," "," ","<","h","e","a","d",">",LF," ",
      " "," "," ","<","t","i","t","l","e",">","5","0","0"," ","I","n","t","e",
      "r","n","a","l"," ","S","e","r","v","e","r"," ","E","r","r","o","r","<",
      "/","t","i","t","l","e",">",LF," "," ","<","/","h","e","a","d",">",LF,
      " "," ","<","b","o","d","y",">",LF," "," "," "," ","<","h","1",">","I",
      "n","t","e","r","n","a","l"," ","S","e","r","v","e","r"," ","E","r","r",
      "o","r","<","/","h","1",">",LF," "," "," "," ","<","p",">","O","k","a",
      "y",","," ","y","o","u"," ","k","n","o","w"," ","w","h","a","t","?"," ",
      "T","h","i","s"," ","o","n","e"," ","i","s"," ","o","n"," ","m","e",".",
      "<","/","p",">",LF," "," ","<","/","b","o","d","y",">",LF,"<","/","h",
      "t","m","l",">",LF,TAB>>

ContentTypeLower == <<"C","o","n","t","e","n","t","-","t","y","p","e">>
TextHtml == <<"t","e","x","t","/","h","t","m","l">>

\* Respond200
Respond200(w) ==
    LET h == HeadersReplace(GetDefaultHeaders(Len(Body200)), ContentTypeLower, TextHtml)
    IN  WriteBody(WriteHeaders(WriteStatusLine(w, StatusOk), h), Body200)

\* Respond400
Respond400(w) ==
    LET h == HeadersReplace(GetDefaultHeaders(Len(Body400)), ContentTypeLower, TextHtml)
    IN  WriteBody(WriteHeaders(WriteStatusLine(w, StatusBadRequest), h), Body400)

\* Respond404: the status code it passes to WriteStatusLine is
\* StatusBadRequest
Respond404(w) ==
    LET h == HeadersReplace(GetDefaultHeaders(Len(Body404Page)), ContentTypeLower, TextHtml)
    IN  WriteBody(WriteHeaders(WriteStatusLine(w, StatusBadRequest), h), Body404Page)

\* Respond500
Respond500(w) ==
    LET h == HeadersReplace(GetDefaultHeaders(Len(Body500)), ContentTypeLower, TextHtml)
    IN  WriteBody(WriteHeaders(WriteStatusLine(w, StatusInternalServerError), h), Body500)

\* the data values handed to Writer.JSON: integers, booleans, nil, and a
\* channel, which encoding/json cannot marshal
MaxJSONInt == 12
JSONValues ==
    [kind : {"int"}, n : 0..MaxJSONInt]
      \cup [kind : {"true", "false", "nil", "chan"}, n : {0}]

ErrorUnsupportedType == "json: unsupported type"

\* json.Marshal on those values: the bytes and the error (nil bytes on error)
Marshal(data) ==
    CASE data.kind = "int"   -> [bytes |-> Itoa(data.n), err |-> NoErr]
      [] data.kind = "true"  -> [bytes |-> <<"t","r","u","e">>, err |-> NoErr]
      [] data.kind = "false" -> [bytes |-> <<"f","a","l","s","e">>, err |-> NoErr]
      [] data.kind = "nil"   -> [bytes |-> <<"n","u","l","l">>, err |-> NoErr]
      [] OTHER               -> [bytes |-> <<>>, err |-> ErrorUnsupportedType]

ContentTypeName == <<"C","o","n","t","e","n","t","-","T","y","p","e">>
ApplicationJSON == <<"a","p","p","l","i","c","a","t","i","o","n","/","j","s","o","n">>

\* Writer.JSON: when Marshal fails it writes the 500 status line and the
\* default headers and then carries on (there is no return in that branch)
JSON(w, statusCode, data) ==
    LET m  == Marshal(data)
        w1 == IF m.err # NoErr
              THEN WriteHeaders(WriteStatusLine(w, StatusInternalServerError), GetDefaultHeaders(0))
              ELSE w
        h  == HeadersSet(GetDefaultHeaders(Len(m.bytes)), ContentTypeName, ApplicationJSON)
    IN  WriteBody(WriteHeaders(WriteStatusLine(w1, statusCode), h), m.bytes)

\* runConnection's answer to a request that failed to decode
DecodeFailureAnswer(w) ==
    WriteHeaders(WriteStatusLine(w, StatusBadRequest), GetDefaultHeaders(0))

(***************************************************************************)
(* SpecRespond: one library answer on a fresh connection.  msg names the   *)
(* answer and, for JSON, the status code and the data.                     *)
(***************************************************************************)
\* the status codes handed to Writer.JSON: the five WriteStatusLine knows
\* and one it does not
JSONStatusCodes ==
    {StatusOk, StatusCreated, StatusBadRequest, StatusNotFound,
     StatusInternalServerError, 204}

Responders ==
    {"Respond200", "Respond400", "Respond404", "Respond500", "NotFound", "DecodeFailure"}

NoData == [kind |-> "nil", n |-> 0]

InitRespond ==
    /\ msg \in [who : Responders, statusCode : {0}, data : {NoData}]
                 \cup [who : {"JSON"}, statusCode : JSONStatusCodes, data : JSONValues]
    /\ stream = <<>>
    /\ buf = <<>>
    /\ req = newRequest
    /\ pc = "answering"
    /\ ret = NoResult
    /\ last = NoCall
    /\ HeadersIdle /\ MuxIdle /\ ConnIdle

Answered(w) ==
    /\ pc = "answering"
    /\ out' = w
    /\ pc' = "answered"
    /\ UNCHANGED <<msg, stream, buf, req, ret, last, headerVars, muxVars, calls, closed>>

CallRespond200 == msg.who = "Respond200" /\ Answered(Respond200(out))
CallRespond400 == msg.who = "Respond400" /\ Answered(Respond400(out))
CallRespond404 == msg.who = "Respond404" /\ Answered(Respond404(out))
CallRespond500 == msg.who = "Respond500" /\ Answered(Respond500(out))
CallJSON == msg.who = "JSON" /\ Answered(JSON(out, msg.statusCode, msg.data))
CallNotFound ==
    /\ msg.who = "NotFound"
    /\ Answered(ServeHTTP(routes, [out |-> out, r |-> req, calls |-> calls]).out)
CallDecodeFailure == msg.who = "DecodeFailure" /\ Answered(DecodeFailureAnswer(out))

NextRespond ==
    \/ CallRespond200
    \/ CallRespond400
    \/ CallRespond404
    \/ CallRespond500
    \/ CallJSON
    \/ CallNotFound
    \/ CallDecodeFailure

SpecRespond == InitRespond /\ [][NextRespond]_vars

\* the place of a write in an answer: status line, header block, body
WriteRank(e) ==
    CASE e.op = "WriteStatusLine" -> 1
      [] e.op = "WriteHeaders"    -> 2
      [] OTHER                    -> 3

\* at most one status line, then at most one header block, then body writes
InWriteOrder(w) ==
    /\ Cardinality({k \in DOMAIN w : w[k].op = "WriteStatusLine"}) <= 1
    /\ Cardinality({k \in DOMAIN w : w[k].op = "WriteHeaders"}) <= 1
    /\ \A a, b \in DOMAIN w : a < b => WriteRank(w[a]) <= WriteRank(w[b])

\* C21: every answer the library itself produces (the mux's not-found, the
\* server's 400, Respond200/400/404/500, and JSON for every status code and
\* data value) gives the writer at most one status line, then at most one
\* header block, then body writes.
C21_WriteOrder == pc = "answered" => InWriteOrder(out)

StatusLine404 ==
    <<"H","T","T","P","/","1",".","1"," ","4","0","4"," ","N","o","t"," ","F","o","u","n","d",CR,LF>>

\* C23: the first write of Respond404 is the status line
\* HTTP/1.1 404 Not Found.
C23_Respond404StatusLine ==
    (pc = "answered" /\ msg.who = "Respond404") =>
        /\ Len(out) >= 1
        /\ out[1].op = "WriteStatusLine"
        /\ out[1].bytes = StatusLine404

(***************************************************************************)
(* SpecWorkers: connection workers calling ServeHTTP on one Mux at the     *)
(* same time.  The routes are registered before serving; every worker has  *)
(* its own writer and its own request, so req, out, calls and pc are       *)
(* indexed by worker here.  A step of a worker is one pass of the loop     *)
(* over m.routes, or the not-found answer after it.                        *)
(***************************************************************************)
NumWorkers == 2

Workers == 1..NumWorkers

\* the pass with the matched route moved to the front of m.routes
ServeStepMoveToFront(rs, i, st) ==
    LET requestParts == Split(Trim(st.r.RequestLine.RequestTarget, {"/"}), "/")
    IN  IF i > Len(rs)
        THEN [routes |-> rs, st |-> NotFound(st), i |-> i, returned |-> TRUE]
        ELSE LET m == RouteMatches(rs[i], st.r, requestParts)
             IN  IF m.match
                 THEN [routes |-> <<rs[i]>> \o Take(rs, i - 1) \o Drop(rs, i),
                       st |-> CallHandler(rs[i].handler, [st EXCEPT !.r.PathParams = m.params]),
                       i |-> i, returned |-> TRUE]
                 ELSE [routes |-> rs, st |-> st, i |-> i + 1, returned |-> FALSE]

\* ServeHTTP, one pass of the loop over m.routes at position i and what it
\* leaves in the memory it can reach: m.routes, the writer and the request
\* (match and params are locals of the pass)
ServeStep(rs, i, st) ==
    LET requestParts == Split(Trim(st.r.RequestLine.RequestTarget, {"/"}), "/")
    IN  IF i > Len(rs)
        THEN [routes |-> rs, st |-> NotFound(st), i |-> i, returned |-> TRUE]
        ELSE LET m == RouteMatches(rs[i], st.r, requestParts)
             IN  IF m.match
                 THEN [routes |-> rs,
                       st |-> CallHandler(rs[i].handler, [st EXCEPT !.r.PathParams = m.params]),
                       i |-> i, returned |-> TRUE]
                 ELSE [routes |-> rs, st |-> st, i |-> i + 1, returned |-> FALSE]

\* the registrations made before serving, and the requests of the workers
WorkerPatterns ==
    { p \in Patterns : Len(p.segs) = 2 /\ p.segs[1].kind = "lit" }

WorkerTargets ==
    { t \in Targets : t.segs \in { <<<<"u","s","e","r","s">>, <<"4","2">>>>, <<<<"a">>, <<"b">>>> } }

Registrations ==
    { <<a, b>> : a, b \in [method : {GET}, pattern : WorkerPatterns] }

\* the Mux after the HandleFunc calls of regs
RECURSIVE RegisterAll(_, _)
RegisterAll(rs, regs) ==
    IF regs = <<>> THEN rs
    ELSE RegisterAll(HandleFunc(rs, Head(regs).method, Head(regs).pattern.text,
                                [base |-> Len(rs) + 1, wraps |-> <<>>]),
                     Tail(regs))

InitWorkers ==
    /\ \E regs \in Registrations :
       \E reqs \in [Workers -> [method : Methods, target : WorkerTargets]] :
           /\ msg = [regs |-> regs, reqs |-> reqs]
           /\ routes = RegisterAll(<<>>, regs)
           /\ req = [w \in Workers |-> DecodedRequest(reqs[w].method, reqs[w].target.text)]
    /\ pc = [w \in Workers |-> [at |-> "loop", i |-> 1]]
    /\ out = [w \in Workers |-> <<>>]
    /\ calls = [w \in Workers |-> <<>>]
    /\ stream = <<>>
    /\ buf = <<>>
    /\ ret = NoResult
    /\ last = NoCall
    /\ HeadersIdle
    /\ chain = NoChain
    /\ closed = FALSE

\* worker w runs its next pass
WorkerStep(w) ==
    /\ pc[w].at = "loop"
    /\ \E res \in {ServeStep(routes, pc[w].i, [out |-> out[w], r |-> req[w], calls |-> calls[w]])} :
           /\ routes' = res.routes
           /\ req' = [req EXCEPT ![w] = res.st.r]
           /\ out' = [out EXCEPT ![w] = res.st.out]
           /\ calls' = [calls EXCEPT ![w] = res.st.calls]
           /\ pc' = [pc EXCEPT ![w] = [at |-> IF res.returned THEN "returned" ELSE "loop",
                                       i |-> res.i]]
    /\ UNCHANGED <<msg, stream, buf, ret, last, headerVars, chain, closed>>

NextWorkers == \E w \in Workers : WorkerStep(w)

SpecWorkers == InitWorkers /\ [][NextWorkers]_vars

\* the request of worker w dispatched alone on the Mux as registered
Alone(w) ==
    ServeHTTP(RegisterAll(<<>>, msg.regs),
              [out |-> <<>>,
               r |-> DecodedRequest(msg.reqs[w].method, msg.reqs[w].target.text),
               calls |-> <<>>])

\* C22: under every interleaving of the workers' ServeHTTP calls the route
\* sequence stays as it was registered, a worker that has not returned has
\* written nothing, and a worker that has returned ran the same handler
\* with the same PathParams, and wrote the same answer, as its request
\* dispatched alone.
C22_WorkersShareNoMutableState ==
    /\ routes = RegisterAll(<<>>, msg.regs)
    /\ \A w \in Workers :
          /\ pc[w].at = "loop" =>
                /\ out[w] = <<>> /\ calls[w] = <<>>
                /\ req[w] = DecodedRequest(msg.reqs[w].method, msg.reqs[w].target.text)
          /\ pc[w].at = "returned" =>
                /\ calls[w] = Alone(w).calls
                /\ req[w].PathParams = Alone(w).r.PathParams
                /\ req[w] = Alone(w).r
                /\ out[w] = Alone(w).out

\* C22 witness: worker 1 has returned from the second route's handler with
\* a parameter bound while worker 2, whose request the second route matches
\* as well, is still in the loop
C22_Witness ==
    /\ pc[1].at = "returned"
    /\ calls[1] = <<Ran(2, "handler", req[1].PathParams)>>
    /\ req[1].PathParams # <<>>
    /\ pc[2] = [at |-> "loop", i |-> 2]
    /\ RouteMatches(routes[2], req[2], Split(Trim(req[2].RequestLine.RequestTarget, {"/"}), "/")).match

(***************************************************************************)
(* SpecAccept: Serve, the accept loop of runServer and Server.Close.       *)
(* stream is the queue of connections waiting at the listener, buf the     *)
(* set of runConnection goroutines started and not yet run, calls the      *)
(* connections handled, closed the field s.closed, pc the position of the  *)
(* accept loop.  A connection notes whether Close had returned when it     *)
(* arrived and whether its request decodes.                                *)
(***************************************************************************)
MaxConns == 3

LogAcceptLoopClosed == "Accept loop closed."
LogAcceptFailed == "Failed to accept connection"

\* Serve has returned: the listener is open, the loop runs, closed is false
InitAccept ==
    /\ msg = [arrived |-> 0]
    /\ stream = <<>>
    /\ buf = {}
    /\ calls = <<>>
    /\ closed = FALSE
    /\ pc = "accepting"
    /\ req = newRequest
    /\ ret = NoResult
    /\ last = NoCall
    /\ out = <<>>
    /\ HeadersIdle /\ MuxIdle

\* a client connects to the listening port
Arrive(ok) ==
    /\ msg.arrived < MaxConns
    /\ msg' = [msg EXCEPT !.arrived = @ + 1]
    /\ stream' = Append(stream, [id |-> msg.arrived + 1, ok |-> ok, afterClose |-> closed])
    /\ UNCHANGED <<buf, req, pc, ret, last, headerVars, muxVars, connVars>>

\* the accept loop running the connection itself instead of starting a
\* goroutine: it is back at Accept only when that worker has returned
AcceptInline ==
    /\ pc = "accepting"
    /\ stream # <<>>
    /\ buf = {}
    /\ buf' = buf \cup {Head(stream)}
    /\ stream' = Tail(stream)
    /\ UNCHANGED <<msg, req, pc, ret, last, headerVars, muxVars, connVars>>

\* runServer: listener.Accept() returns a connection and the loop starts
\* runConnection on it in a goroutine of its own
Accept ==
    /\ pc = "accepting"
    /\ stream # <<>>
    /\ buf' = buf \cup {Head(stream)}
    /\ stream' = Tail(stream)
    /\ UNCHANGED <<msg, req, pc, ret, last, headerVars, muxVars, connVars>>

\* runServer: listener.Accept() returns an error; the loop logs, by what it
\* reads in s.closed, and returns
AcceptFails ==
    /\ pc = "accepting"
    /\ pc' = "exited"
    /\ last' = [last EXCEPT !.entry = IF closed THEN LogAcceptLoopClosed ELSE LogAcceptFailed]
    /\ UNCHANGED <<msg, stream, buf, req, ret, headerVars, muxVars, connVars>>

\* runConnection on an accepted connection: the 400 answer when the request
\* does not decode, the handler otherwise
RunConnection(c) ==
    /\ c \in buf
    /\ buf' = buf \ {c}
    /\ \E st \in {IF c.ok
                  THEN BaseHandler(1, [out |-> <<>>, r |-> newRequest, calls |-> <<>>])
                  ELSE [out |-> DecodeFailureAnswer(<<>>), r |-> newRequest, calls |-> <<>>]} :
           calls' = Append(calls, [conn |-> c, ran |-> st.calls, w |-> st.out])
    /\ UNCHANGED <<msg, stream, req, pc, ret, last, headerVars, muxVars, out, closed>>

\* Server.Close: s.closed = true; return nil
Close ==
    /\ ~closed
    /\ closed' = TRUE
    /\ UNCHANGED <<msg, stream, buf, req, pc, ret, last, headerVars, muxVars, out, calls>>

NextAccept ==
    \/ \E ok \in BOOLEAN : Arrive(ok)
    \/ Accept
    \/ AcceptFails
    \/ \E c \in buf : RunConnection(c)
    \/ Close

SpecAccept == InitAccept /\ [][NextAccept]_vars

\* C24: no connection that arrives after Close has returned is accepted
\* and handled.
C24_NoAcceptAfterClose ==
    \A k \in DOMAIN calls : ~calls[k].conn.afterClose

(***************************************************************************)
(* Claims about one call of parse and about Headers.Parse                  *)
(***************************************************************************)
\* no CR LF pair anywhere in d
NoTerminator(d) == \A i \in 1..(Len(d) - 1) : ~(d[i] = CR /\ d[i + 1] = LF)

\* the bytes a step hands to parse: what was held and what it delivers
Handed == buf \o Take(stream, Len(stream) - Len(stream'))

\* C25: a call of parse in state Init on a buffer with no CRLF-terminated
\* line consumes 0 bytes, returns no error and leaves the state and the
\* whole request as they were.
C25_InitIncompleteLine ==
    [][(req.state = StateInit /\ NoTerminator(Handed)) =>
          /\ last'.entry = StateInit
          /\ last'.n = 0
          /\ last'.err = NoErr
          /\ req' = req
          /\ req'.state = StateInit
          /\ buf' = Handed]_vars

\* C25 witness: parse was called in Init on a non-empty buffer without a
\* terminator and the request is still the new one
C25_Witness ==
    /\ last.entry = StateInit
    /\ last.n = 0 /\ last.err = NoErr
    /\ buf # <<>> /\ NoTerminator(buf)
    /\ buf[Len(buf)] = CR
    /\ req = newRequest

(***************************************************************************)
(* SpecSection: Headers.Parse called by a reader that hands it what it     *)
(* holds each time more bytes have arrived and keeps what Parse did not    *)
(* consume.  msg is a header section, its empty line and the bytes sent    *)
(* after it; hop is the last call: the data handed over, the table before  *)
(* it, its three results, and the bytes consumed by all calls so far.      *)
(***************************************************************************)
\* the bytes after the empty line: none, body bytes, bytes that read as a
\* header line (well-formed, with a name that is no token, with no colon),
\* and a second empty line
SectionTails ==
    { <<>>, <<"a","b","c">>, <<"a","b","c">> \o SEPARATOR, SEPARATOR }
      \cup { EncodeHeader(l) : l \in {x \in HeaderLines : x.key \in {KeyHost, KeyBad}} }

Sections == [rl : {<<>>}, hdrs : HeaderSeqs, tail : SectionTails]

EncodeSection(m) == EncodeHeaders(m.hdrs) \o SEPARATOR \o m.tail

NoParse ==
    [op |-> "none", data |-> <<>>, before |-> <<>>, n |-> 0, done |-> FALSE,
     err |-> NoErr, total |-> 0]

InitSection ==
    /\ msg \in Sections
    /\ stream = EncodeSection(msg)
    /\ buf = <<>>
    /\ htab = NewHeaders
    /\ hop = NoParse
    /\ pc = "parsing"
    /\ req = newRequest
    /\ ret = NoResult
    /\ last = NoCall
    /\ MuxIdle /\ ConnIdle

\* k more bytes arrive and Parse is called on what is held
ParseSection(k) ==
    /\ pc = "parsing"
    /\ k \in ChunkSizes(stream, buf)
    /\ \E data \in {buf \o Take(stream, k)} :
       \E res \in {HeadersParse(htab, data)} :
           /\ stream' = Drop(stream, k)
           /\ htab' = res.h
           /\ hop' = [op |-> "Parse", data |-> data, before |-> htab, n |-> res.n,
                      done |-> res.done, err |-> res.err, total |-> hop.total + res.n]
           /\ buf' = Drop(data, res.n)
           /\ pc' = IF res.err # NoErr THEN "failed"
                    ELSE IF res.done THEN "complete" ELSE "parsing"
    /\ UNCHANGED <<msg, req, ret, last, muxVars, connVars>>

NextSection == \E k \in ChunkSizes(stream, buf) : ParseSection(k)

SpecSection == InitSection /\ [][NextSection]_vars

\* the bytes of the section that have arrived
Arrived == Len(EncodeSection(msg)) - Len(stream)

\* the length of the header lines and the empty line of the section
SectionLength == Len(EncodeHeaders(msg.hdrs)) + Len(SEPARATOR)

\* the position just after the last CR LF of d, 0 when there is none
LastTerminatorEnd(d) ==
    LET ends == {i \in 2..Len(d) : d[i - 1] = CR /\ d[i] = LF}
    IN  IF ends = {} THEN 0 ELSE CHOOSE i \in ends : \A j \in ends : j <= i

\* C26: once the empty line has arrived whole, Parse reports done, the
\* bytes consumed by all calls end exactly at the terminator of the empty
\* line, the table holds the lines before it and nothing else, and the
\* bytes after it stay with the caller whatever they are (no error comes
\* from them); Parse does not report done before.
C26_StopsAtEmptyLine ==
    (hop.op = "Parse" /\ BadNameLines(msg) = {}) =>
        /\ hop.done <=> Arrived >= SectionLength
        /\ hop.done =>
              /\ hop.err = NoErr
              /\ hop.total = SectionLength
              /\ htab = ExpectedHeaders(msg.hdrs)
              /\ buf = Take(msg.tail, Arrived - SectionLength)
        /\ hop.err = NoErr

\* C26 witness: the empty line and a line "Host: a:b" after it arrived in
\* one buffer; Parse stopped before that line
C26_Witness ==
    /\ hop.op = "Parse" /\ hop.done
    /\ msg.hdrs # <<>>
    /\ KeyHost \notin DOMAIN htab
    /\ buf = msg.tail
    /\ HasPrefix(buf, NameHost \o <<":">>)
    /\ HasSuffix(buf, SEPARATOR)

\* C27: the count Parse returns is 0 or ends just after a CR LF of the data
\* it was given; when the empty line has not arrived whole and no line was
\* in error, Parse reports not done, the count is the length of the
\* complete lines of the data, and what is left has no terminator in it.
C27_NoPartialLine ==
    hop.op = "Parse" =>
        /\ hop.n \in 0..Len(hop.data)
        /\ hop.n = 0 \/ (hop.n >= 2 /\ hop.data[hop.n - 1] = CR /\ hop.data[hop.n] = LF)
        /\ (hop.err = NoErr /\ Arrived < SectionLength) =>
              /\ ~hop.done
              /\ hop.n = LastTerminatorEnd(hop.data)
              /\ NoTerminator(buf)
              /\ buf = Drop(hop.data, hop.n)

\* C27 witness: a call that consumed one whole line, stored it, and left
\* the start of the next line with the caller
C27_Witness ==
    /\ hop.op = "Parse" /\ ~hop.done /\ hop.err = NoErr
    /\ hop.n > 0
    /\ buf # <<>> /\ buf = Drop(hop.data, hop.n)
    /\ DOMAIN htab # DOMAIN hop.before

(***************************************************************************)
(* SpecBraces: a Mux built from patterns whose second segment carries      *)
(* braces in every arrangement, then asked to serve one request.  msg      *)
(* keeps the segments registered and asked as plain text.                  *)
(***************************************************************************)
BraceSegments ==
    { <<"{","i","d","}">>, <<"{","i","d">>, <<"i","d","}">>, <<"{","{","i","d","}","}">>,
      <<"{","}">>, <<"{","a","}","{","b","}">>, <<"{">>, <<"i","d">> }

BracePatterns ==
    { [text |-> <<"/","a","/">> \o s, segs |-> <<<<"a">>, s>>] : s \in BraceSegments }

BraceTargets ==
    { [text |-> <<"/","a","/">> \o s, segs |-> <<<<"a">>, s>>] :
        s \in { <<"4","2">>, <<"{","i","d">>, <<"{","{","i","d","}","}">>, <<"{">> } }
      \cup { [text |-> <<"/","b","/","4","2">>, segs |-> <<<<"b">>, <<"4","2">>>>] }

NextBraces ==
    \/ \E pattern \in BracePatterns : Register(GET, pattern)
    \/ \E target \in BraceTargets : Dispatch(GET, target)

SpecBraces == InitMux /\ [][NextBraces]_vars

Braces == {"{", "}"}

\* s is wrapped in one matched pair: an opening brace, text free of braces,
\* a closing brace
SinglePair(s) ==
    /\ Len(s) >= 2
    /\ s[1] = "{" /\ s[Len(s)] = "}"
    /\ \A i \in 2..(Len(s) - 1) : s[i] \notin Braces

\* the text between the first and the last byte of s
Between(s) == SubSeq(s, 2, Len(s) - 1)

\* s begins with an opening brace and ends with a closing one
BraceEnds(s) == Len(s) >= 2 /\ s[1] = "{" /\ s[Len(s)] = "}"

\* s without the braces at its two ends
Unbraced(s) ==
    LET inner == {i \in DOMAIN s : s[i] \notin Braces}
    IN  IF inner = {} THEN <<>>
        ELSE SubSeq(s, CHOOSE i \in inner : \A j \in inner : i <= j,
                       CHOOSE i \in inner : \A j \in inner : j <= i)

\* what the router is to do with the request under a reading of the
\* patterns: IsParam says which segments are parameters
SegmentsMatch(reg, IsParam(_)) ==
    /\ reg.method = msg.method
    /\ Len(reg.segs) = Len(msg.segs)
    /\ \A i \in DOMAIN reg.segs : ~IsParam(reg.segs[i]) => reg.segs[i] = msg.segs[i]

SegmentsBound(reg, IsParam(_), NameOf(_)) ==
    LET ps == {i \in DOMAIN reg.segs : IsParam(reg.segs[i])}
    IN  [n \in {NameOf(reg.segs[i]) : i \in ps} |->
           msg.segs[CHOOSE i \in ps : NameOf(reg.segs[i]) = n /\
                                      \A j \in ps : NameOf(reg.segs[j]) = n => j <= i]]

ServedAs(IsParam(_), NameOf(_)) ==
    LET matching == {i \in DOMAIN msg.regs : SegmentsMatch(msg.regs[i], IsParam)}
    IN  /\ \A i \in DOMAIN routes :
              LET m == RouteMatches(routes[i], Served, RequestParts)
              IN  /\ m.match <=> i \in matching
                  /\ m.match => m.params = SegmentsBound(msg.regs[i], IsParam, NameOf)
        /\ matching = {} => calls = <<>>
        /\ matching # {} =>
              LET first == CHOOSE i \in matching : \A j \in matching : i <= j
              IN  calls = <<Ran(first, "handler", SegmentsBound(msg.regs[first], IsParam, NameOf))>>

\* C28 as stated: a segment is a parameter exactly when it is wrapped in a
\* single matched pair of braces, its name the text between them; every
\* other segment, one with doubled braces included, is compared as text.
C28_SinglePairOnly == pc = "served" => ServedAs(SinglePair, Between)

\* C28 amended: a segment is a parameter exactly when it begins with an
\* opening brace and ends with a closing one, its name the segment without
\* the braces at its two ends; every other segment (only an opening brace,
\* only a closing one) is compared as text.
C28_BraceEnds == pc = "served" => ServedAs(BraceEnds, Unbraced)

\* C28 witness: /a/{{id}} served /a/42 with id = 42
C28_Witness ==
    /\ pc = "served"
    /\ Len(routes) = 1
    /\ routes[1].parts = <<<<"a">>, <<"{","{","i","d","}","}">>>>
    /\ req.RequestLine.RequestTarget = <<"/","a","/","4","2">>
    /\ calls = <<Ran(1, "handler", (<<"i","d">> :> <<"4","2">>))>>

\* the request served, with its target cut at the first '?'
WithoutQuery ==
    [Served EXCEPT !.RequestLine.RequestTarget = SplitN2(@, "?")[1]]

\* C29: a request is routed by the path of its target alone: it runs the
\* same handler with the same parameters, or gets the same not-found
\* answer, as the request with the query string taken off its target.
C29_QueryIgnored ==
    pc = "served" =>
        LET alone == ServeHTTP(routes, [out |-> <<>>, r |-> WithoutQuery, calls |-> <<>>])
        IN  /\ calls = alone.calls
            /\ req.PathParams = alone.r.PathParams
            /\ out = alone.out

\* C30: on every turn of the read loop the bytes handed to parse are the
\* bytes read so far less those consumed by the earlier calls, in stream
\* order, the newly read ones last; they fit the buffer; parse consumes
\* between 0 and all of them; and what the loop holds afterwards is again
\* the unconsumed suffix of the bytes read (consumed so far + held = read).
C30_ReadLoopBuffer ==
    [][stream' # stream =>
          /\ Handed = SubSeq(Encode(msg), last.total + 1, Len(Encode(msg)) - Len(stream'))
          /\ Len(buf) + (Len(stream) - Len(stream')) = Len(Handed)
          /\ Len(Handed) <= BufSize
          /\ last'.n \in 0..Len(Handed)
          /\ last'.total = last.total + last'.n
          /\ pc' = "reading" =>
                /\ buf' = SubSeq(Encode(msg), last'.total + 1,
                                 Len(Encode(msg)) - Len(stream'))
                /\ last'.total + Len(buf') = Len(Encode(msg)) - Len(stream')]_vars

\* C30 witness: the loop is reading after a second call that consumed
\* bytes, holding the start of the next line
C30_Witness ==
    /\ pc = "reading"
    /\ last.n > 0 /\ last.total > last.n
    /\ buf # <<>>
    /\ buf = SubSeq(Encode(msg), last.total + 1, Delivered)
    /\ stream # <<>>

(***************************************************************************)
(* Claims about the life of one connection                                 *)
(***************************************************************************)
\* the states the decoder of this connection went through
Dones == {i \in DOMAIN req.hist : req.hist[i] = StateDone}

\* C31: a connection is read, then answered, then closed, in that order:
\* while it is read nothing is written, no handler runs and it is open;
\* the decoder reaches Done at most once; the handler runs at most once and
\* only on a request decoded to Done; the connection is closed after the
\* handler and after the 400 answer alike; and a closed connection takes no
\* further step, so the bytes still unread are never decoded.
C31_ConnectionLifecycle ==
    /\ pc \in {"reading", "returned", "closed"}
    /\ Cardinality(Dones) <= 1
    /\ pc = "reading" => ret = NoResult /\ out = <<>> /\ calls = <<>> /\ ~closed
    /\ pc = "returned" =>
          /\ out = <<>> /\ calls = <<>> /\ ~closed
          /\ ret.isNil <=> ret.err # NoErr
    /\ pc = "closed" =>
          /\ closed
          /\ Len(calls) <= 1
          /\ calls # <<>> <=> ~ret.isNil
          /\ calls # <<>> => ret.req.state = StateDone /\ Cardinality(Dones) = 1
          /\ out # <<>>
          /\ ~ENABLED NextServer

\* C31 witness: the handler ran once on a decoded request, the connection
\* is closed and bytes of the stream were left unread
C31_Witness ==
    /\ pc = "closed" /\ closed
    /\ Len(calls) = 1
    /\ ret.req.state = StateDone
    /\ stream # <<>>

(***************************************************************************)
(* SpecBlocked: the accept loop and its workers when some peers connect    *)
(* and then send nothing.  The worker of such a connection waits in        *)
(* reader.Read for ever: it stays in buf and takes no step.  The listener  *)
(* does not fail here.  The scheduler runs every goroutine that can run,   *)
(* and Accept returns while a connection is waiting: weak fairness on the  *)
(* accept loop and on the workers.                                         *)
(***************************************************************************)
PeerKinds == {"request", "garbage", "silent"}

\* a client connects; what it will send is fixed with it
ArrivePeer(kind) ==
    /\ msg.arrived < MaxConns
    /\ msg' = [msg EXCEPT !.arrived = @ + 1]
    /\ stream' = Append(stream, [id |-> msg.arrived + 1, ok |-> kind = "request",
                                 afterClose |-> closed, silent |-> kind = "silent"])
    /\ UNCHANGED <<buf, req, pc, ret, last, headerVars, muxVars, connVars>>

\* a worker whose peer has sent its bytes runs to its end
RunLive == \E c \in buf : ~c.silent /\ RunConnection(c)

NextBlocked ==
    \/ \E kind \in PeerKinds : ArrivePeer(kind)
    \/ Accept
    \/ RunLive

SpecBlocked ==
    /\ InitAccept
    /\ [][NextBlocked]_vars
    /\ WF_vars(Accept)
    /\ WF_vars(RunLive)

\* connection i is waiting at the listener or with its worker
Pending(i) ==
    \/ \E k \in DOMAIN stream : stream[k].id = i /\ ~stream[k].silent
    \/ \E c \in buf : c.id = i /\ ~c.silent

Handled(i) == \E k \in DOMAIN calls : calls[k].conn.id = i

\* C32: whatever workers wait for ever on their peers, every connection
\* whose peer does send is in the end accepted and its worker runs to
\* completion.
C32_BlockedWorkerBlocksOnlyItself ==
    \A i \in 1..MaxConns : Pending(i) ~> Handled(i)

\* C32 witness: a worker is waiting on a silent peer and a connection that
\* arrived after that one has been accepted and handled
C32_Witness ==
    \E c \in buf :
        /\ c.silent
        /\ \E k \in DOMAIN calls : calls[k].conn.id > c.id

(***************************************************************************)
(* Claims about the end of RequestFromReader                               *)
(***************************************************************************)
\* C33: RequestFromReader returns in the end on every finite stream, a
\* request line longer than the buffer included: as long as it has not
\* returned, a turn of its loop can change its state: the read delivers
\* bytes, or finds the end of the stream, or parse consumes bytes, moves
\* the request on or fails.  It never sits in a state that every turn of
\* the loop leaves as it is.
C33_NeverStuck ==
    pc = "reading" =>
        \/ ChunkSizes(stream, buf) # {}
        \/ stream = <<>>
        \/ /\ Len(buf) = BufSize
           /\ \E res \in {parse(req, buf)} : res.n > 0 \/ res.r # req \/ res.err # NoErr

\* the message is a valid request: a well-formed request line and header
\* names that are tokens
ValidMessage(m) == ~MalformedLine(m) /\ BadNameLines(m) = {}

\* the length of the request in the stream: its head and its declared body
CompleteLength(m) == Len(EncodeHead(m)) + DeclaredLength(m)

\* C34: once the bytes of a complete valid request have been delivered,
\* RequestFromReader has returned it: it is not waiting in a further read,
\* whether or not the peer has more bytes to send or closes.
C34_ReturnsWithoutFurtherRead ==
    (ValidMessage(msg) /\ Delivered >= CompleteLength(msg)) =>
        /\ pc = "returned"
        /\ ~ret.isNil /\ ret.err = NoErr
        /\ ret.req.state = StateDone
        /\ Len(ret.req.Body) = DeclaredLength(msg)

\* C34 witness: the request with its body of three bytes was returned on
\* the read that delivered its last byte, with bytes of the peer unread
C34_Witness ==
    /\ pc = "returned" /\ ~ret.isNil
    /\ DeclaredLength(msg) = 3
    /\ Delivered = CompleteLength(msg)
    /\ stream # <<>>
    /\ last.entry = StateBody

(***************************************************************************)
(* SpecDataEOF: the read loop on a source whose last read may return its   *)
(* bytes together with io.EOF, as io.Reader allows.                        *)
(***************************************************************************)
\* the read returns the rest of the stream and io.EOF at once: err is not
\* nil, so the loop returns before it has counted or parsed the bytes
ReadDataEOF ==
    /\ pc = "reading"
    /\ ~done(req)
    /\ stream # <<>>
    /\ Len(stream) <= BufSize - Len(buf)
    /\ stream' = <<>>
    /\ pc' = "returned"
    /\ buf' = <<>>
    /\ ret' = [isNil |-> TRUE, req |-> newRequest, err |-> ErrorConnectionClosed]
    /\ UNCHANGED <<msg, req, last, headerVars, muxVars, connVars>>

NextDataEOF ==
    \/ \E k \in ChunkSizes(stream, buf) : ReadChunk(k)
    \/ ReadEOF
    \/ ReadDataEOF

SpecDataEOF == Init /\ [][NextDataEOF]_vars

\* C35: when the whole of a complete valid request has been delivered, the
\* last of it with the end-of-stream indicator or before it,
\* RequestFromReader returns the decoded Request and not an error.
C35_DataWithEOF ==
    (ValidMessage(msg) /\ Len(Encode(msg)) >= CompleteLength(msg)
       /\ stream = <<>> /\ pc = "returned") =>
        /\ ~ret.isNil
        /\ ret.err = NoErr
        /\ ret.req.state = StateDone

\* C36: in every state reached from a new Request by calls of parse, the
\* state is one of the five the switch handles, and state Body implies
\* that the stored Content-Length is an integer greater than 0 (the one the
\* message declares); so neither the "chunked not implemented" panic of
\* the Body case nor the "unhandled parser state" panic is ever raised.
C36_NoPanic ==
    /\ req.state \in {StateInit, StateHeaders, StateBody, StateDone, StateError}
    /\ req.state = StateBody =>
          /\ HeadersGet(req.Headers, ContentLengthName).exists
          /\ Atoi(HeadersGet(req.Headers, ContentLengthName).value).ok
          /\ getInt(req.Headers, ContentLengthName, 0) > 0
          /\ getInt(req.Headers, ContentLengthName, 0) = DeclaredLength(msg)
          /\ Len(req.Body) < DeclaredLength(msg)
    /\ pc # "panicked"
    /\ last.err \notin {PanicChunked, PanicSliceBounds}

\* C36 witness: parse was called in state Body, took part of the body and
\* left the request in state Body
C36_Witness ==
    /\ req.state = StateBody
    /\ last.entry = StateBody
    /\ last.n > 0
    /\ Len(req.Body) \in 1..(DeclaredLength(msg) - 1)

(***************************************************************************)
(* SpecParams: a Mux with routes that bind a parameter before they compare *)
(* a literal, asked to serve a request that may come with path parameters  *)
(* of its own (PathParams is a field the caller can set).                  *)
(***************************************************************************)
ParamPatterns ==
    { [text |-> <<"/","{","x","}","/","c">>,
       segs |-> <<[kind |-> "param", text |-> <<"x">>], [kind |-> "lit", text |-> <<"c">>]>>],
      [text |-> <<"/","{","y","}","/","b">>,
       segs |-> <<[kind |-> "param", text |-> <<"y">>], [kind |-> "lit", text |-> <<"b">>]>>],
      [text |-> <<"/","a","/","{","z","}">>,
       segs |-> <<[kind |-> "lit", text |-> <<"a">>], [kind |-> "param", text |-> <<"z">>]>>],
      [text |-> <<"/","a","/","b">>,
       segs |-> <<[kind |-> "lit", text |-> <<"a">>], [kind |-> "lit", text |-> <<"b">>]>>] }

ParamTargets ==
    { [text |-> <<"/","a","/","b">>, segs |-> <<<<"a">>, <<"b">>>>],
      [text |-> <<"/","a","/","c">>, segs |-> <<<<"a">>, <<"c">>>>],
      [text |-> <<"/","d","/","e">>, segs |-> <<<<"d">>, <<"e">>>>] }

\* the path parameters the request comes with
GivenParams == { <<>>, (<<"k">> :> <<"v">>), (<<"x">> :> <<"v">>) }

\* m.ServeHTTP(w, r) on a request that carries path parameters already
DispatchGiven(method, target, given) ==
    /\ pc = "building"
    /\ \E res \in {ServeHTTP(routes,
                             [out |-> out,
                              r |-> [DecodedRequest(method, target.text) EXCEPT !.PathParams = given],
                              calls |-> calls])} :
           /\ req' = res.r
           /\ out' = res.out
           /\ calls' = res.calls
    /\ pc' = "served"
    /\ msg' = [regs |-> msg.regs, method |-> method, segs |-> target.segs, given |-> given]
    /\ UNCHANGED <<stream, buf, ret, last, headerVars, muxVars, closed>>

NextParams ==
    \/ \E pattern \in ParamPatterns : Register(GET, pattern)
    \/ \E target \in ParamTargets, given \in GivenParams : DispatchGiven(GET, target, given)

SpecParams == InitMux /\ [][NextParams]_vars

\* C37: after dispatch the request's PathParams are exactly the bindings of
\* the route that served it, which are also what its handler saw: nothing
\* bound by an earlier route that failed on a later literal, and nothing
\* the request came with; when no route matches they are what the request
\* came with.
C37_PathParamsExact ==
    pc = "served" =>
        /\ Matching # {} =>
              /\ req.PathParams = Bound(msg.regs[FirstMatching])
              /\ calls = <<Ran(FirstMatching, "handler", Bound(msg.regs[FirstMatching]))>>
        /\ Matching = {} =>
              /\ req.PathParams = msg.given
              /\ calls = <<>>

\* C37 witness: /{x}/c bound x = a and failed on its literal, /a/{z} then
\* served /a/b, and the request holds z = b alone
C37_Witness ==
    /\ pc = "served"
    /\ Len(routes) = 2
    /\ routes[1].parts = <<<<"{","x","}">>, <<"c">>>>
    /\ routes[2].parts = <<<<"a">>, <<"{","z","}">>>>
    /\ msg.segs = <<<<"a">>, <<"b">>>>
    /\ msg.given # <<>>
    /\ req.PathParams = (<<"z">> :> <<"b">>)
    /\ calls = <<Ran(2, "handler", (<<"z">> :> <<"b">>))>>

(***************************************************************************)
(* Claims about the headers of a Writer.JSON response                      *)
(***************************************************************************)
\* the header block Writer.JSON wrote just before the body, and the body
JSONHeaderBlock == out[Len(out) - 1].h
JSONBody == out[Len(out)].bytes

JSONAnswered ==
    /\ pc = "answered"
    /\ msg.who = "JSON"
    /\ Len(out) >= 2
    /\ out[Len(out)].op = "WriteBody"
    /\ out[Len(out) - 1].op = "WriteHeaders"

\* C38: the header block of a Writer.JSON response has a Content-Type whose
\* value is application/json and nothing else, and a Content-Length that
\* is the number of body bytes written.
C38_JSONHeaders ==
    JSONAnswered =>
        /\ HeadersGet(JSONHeaderBlock, ContentTypeName)
              = [value |-> ApplicationJSON, exists |-> TRUE]
        /\ HeadersGet(JSONHeaderBlock, NameCL)
              = [value |-> Itoa(Len(JSONBody)), exists |-> TRUE]

====
